---------------------------- MODULE Spec2Model ----------------------------
(***************************************************************************)
(* Resource handlers of the Terraform AWS provider: the FSx OpenZFS file   *)
(* system, the MemoryDB ACL and the CloudTrail trail (Create / Read /      *)
(* Update / Delete), and the sweepers' shared regional client cache.       *)
(*                                                                         *)
(* One handler invocation runs at a time.  Every call a handler makes to   *)
(* the service (API call, finder, waiter) is one step; its outcome is      *)
(* chosen by the environment and the call is appended to `calls`.          *)
(***************************************************************************)
EXTENDS Integers, Sequences, FiniteSets, TLC

\* ------------------------------------------------------------------ bounds

\* Number of retry rounds that fit into propagationTimeout.
MaxRetryRounds == 2
\* Number of trail attributes (tags aside) one update changes.
MaxChanged == 2
\* Number of distinct clients ConfigureProvider hands out.
MaxClients == 3
\* The longest error message, in texts.
MaxMessageTexts == 1
\* The most rules a described security group holds in one direction.
MaxRules == 2
\* The most event_selector blocks of a configuration that is expanded and
\* flattened.
MaxEventSelectors == 2

\* --------------------------------------------------------------- constants

NIL == "<nil>"

FsId == "fs-1"
AclName == "acl-1"
TrailName == "trail-1"

Resources == {"fsx", "acl", "trail"}
Operations == {"create", "read", "update", "delete"}

Users == {"u1", "u2"}

ReadWriteTypeAll == "All"

VARIABLES
    res,        \* the resource type whose handler runs
    op,         \* the handler: create, read, update, delete
    pc,         \* position in the handler ("idle", "done", or a step)
    id,         \* d.Id()
    isNew,      \* d.IsNewResource()
    status,     \* "running", or the handler's return: "ok" / "error"
    calls,      \* the service calls made so far: <<[api, r]>>
    changed,    \* the attributes for which d.HasChange is true
    cfg,        \* the configuration values d.Get returns
    req,        \* the request the handler builds
    initialUserNames,  \* resourceACLUpdate: the users FindACLByName returned
    elapsed,    \* retry rounds used up inside retry.RetryContext
    attrs,      \* the attributes d.Set has written in this invocation
    eventSelectorState,  \* the value d.Set wrote to event_selector
    remote,     \* what the service holds for the trail
    filesystem, \* the file system FindFileSystemByID returned
    trailErr    \* the error of the last CreateTrail / UpdateTrail attempt

crudVars == <<res, op, pc, id, isNew, status, calls, changed, cfg, req,
              initialUserNames, elapsed, attrs, eventSelectorState, remote,
              filesystem, trailErr>>

VARIABLES
    sweeperClients,  \* the cache: region -> client (clients are 1, 2, ...)
    nextClient,      \* the next client ConfigureProvider creates
    env,             \* the environment variables that are set
    sweepCalled,     \* whether SharedRegionalSweepClient has been called
    sweepRegion,     \* the last call's region
    sweepClient,     \* the last call's returned client (0: nil)
    sweepErr,        \* whether the last call returned an error
    sweepSteps       \* what the last call ran: env checks, ConfigureProvider

sweepVars == <<sweeperClients, nextClient, env, sweepCalled, sweepRegion, sweepClient,
               sweepErr, sweepSteps>>

VARIABLES
    callee,     \* the function last called on its own ("" before any call)
    argument,   \* the argument of that call
    returned    \* what that call returned

callVars == <<callee, argument, returned>>

vars == <<crudVars, sweepVars, callVars>>


\* ----------------------------------------------------------------- helpers

\* One service call and its outcome, appended to the invocation's log.
Call(api, r) == calls' = Append(calls, [api |-> api, r |-> r])

\* The handler returns: diagnostics without ("ok") or with ("error") an error.
Return(s) == status' = s /\ pc' = "done"

HasChange(k) == k \in changed
HasChanges(ks) == (changed \cap ks) # {}
HasChangesExcept(ks) == (changed \ ks) # {}

Apis(log) == {log[i].api : i \in DOMAIN log}

EmptyCfg ==
    [backup_id |-> FALSE,
     old_user_names |-> {}, new_user_names |-> {},
     enable_logging |-> FALSE,
     event_selector |-> <<>>,
     cloud_watch_logs_role_arn |-> "", cloud_watch_logs_group_arn |-> "",
     advanced_event_selector |-> FALSE, insight_selector |-> FALSE]

EmptyReq ==
    [UserNamesToAdd |-> {}, UserNamesToRemove |-> {},
     CloudWatchLogsRoleArn |-> NIL, CloudWatchLogsLogGroupArn |-> NIL,
     EventSelectors |-> <<>>]

\* What is known of the service's trail: the event selectors this invocation
\* has put (Put = TRUE), and the trail names and flags DescribeTrails
\* returned.
NoRemote ==
    [Put |-> FALSE, EventSelectors |-> <<>>, TrailList |-> {},
     HasCustomEventSelectors |-> FALSE, HasInsightSelectors |-> FALSE]

\* ------------------------------------------------- FSx OpenZFS file system

\* The configurations a described file system may carry (non-nil = TRUE).
FileSystems ==
    [WindowsConfiguration : BOOLEAN, LustreConfiguration : BOOLEAN,
     OntapConfiguration : BOOLEAN, OpenZFSConfiguration : BOOLEAN]

\* The attributes resourceOpenzfsFileSystemRead sets before it reads the
\* root volume.
OpenzfsFileSystemAttrs ==
    {"arn", "dns_name", "deployment_type", "throughput_capacity",
     "storage_type", "kms_key_id", "network_interface_ids", "owner_id",
     "root_volume_id", "storage_capacity", "subnet_ids",
     "disk_iops_configuration", "vpc_id", "weekly_maintenance_start_time",
     "automatic_backup_retention_days", "daily_automatic_backup_start_time",
     "copy_tags_to_backups", "copy_tags_to_volumes"}

\* No file system found yet: every configuration nil.
NoFileSystem ==
    [WindowsConfiguration |-> FALSE, LustreConfiguration |-> FALSE,
     OntapConfiguration |-> FALSE, OpenZFSConfiguration |-> FALSE]

OpenzfsReadUnchanged == UNCHANGED <<res, op, isNew, changed, cfg, req,
                                    initialUserNames, elapsed, remote,
                                    eventSelectorState, trailErr, sweepVars,
                                    callVars>>

OpenzfsUnchanged == OpenzfsReadUnchanged /\ UNCHANGED filesystem

\* CreateFileSystem, or CreateFileSystemFromBackup when backup_id is set.
resourceOpenzfsFileSystemCreate ==
    /\ pc = "fsx_create"
    /\ \E r \in {"ok", "err"} :
        /\ Call(IF cfg.backup_id THEN "CreateFileSystemFromBackup"
                                 ELSE "CreateFileSystem", r)
        /\ IF r = "err"
             THEN Return("error") /\ UNCHANGED id
             ELSE id' = FsId /\ pc' = "fsx_create_wait" /\ UNCHANGED status
    /\ UNCHANGED attrs
    /\ OpenzfsUnchanged

OpenzfsCreateWait ==
    /\ pc = "fsx_create_wait"
    /\ \E r \in {"ok", "err"} :
        /\ Call("waitFileSystemCreated", r)
        /\ IF r = "err"
             THEN Return("error")
             ELSE pc' = "fsx_read" /\ UNCHANGED status
    /\ UNCHANGED <<id, attrs>>
    /\ OpenzfsUnchanged

OpenzfsReadRemovesFromState_IgnoresNew(r) == r = "notfound"

\* !d.IsNewResource() && tfresource.NotFound(err)
OpenzfsReadRemovesFromState(r) == ~isNew /\ r = "notfound"

OpenzfsWrongType_OntapAccepted(fs) ==
    \/ fs.WindowsConfiguration
    \/ fs.LustreConfiguration
    \/ ~fs.OpenZFSConfiguration

\* The file system is of another type, or has no OpenZFS configuration.
OpenzfsWrongType(fs) ==
    \/ fs.WindowsConfiguration
    \/ fs.LustreConfiguration
    \/ fs.OntapConfiguration
    \/ ~fs.OpenZFSConfiguration

resourceOpenzfsFileSystemRead ==
    /\ pc = "fsx_read"
    /\ \E r \in {"ok", "notfound", "err"}, fs \in FileSystems :
        /\ Call("FindFileSystemByID", r)
        /\ filesystem' = IF r = "ok" THEN fs ELSE NoFileSystem
        /\ IF OpenzfsReadRemovesFromState(r)
             THEN id' = "" /\ Return("ok") /\ UNCHANGED attrs
             ELSE IF r # "ok"
               THEN Return("error") /\ UNCHANGED <<id, attrs>>
               ELSE IF OpenzfsWrongType(fs)
                 THEN Return("error") /\ UNCHANGED <<id, attrs>>
                 ELSE /\ attrs' = attrs \cup OpenzfsFileSystemAttrs
                      /\ pc' = "fsx_read_volume"
                      /\ UNCHANGED <<id, status>>
    /\ OpenzfsReadUnchanged

OpenzfsReadRootVolume ==
    /\ pc = "fsx_read_volume"
    /\ \E r \in {"ok", "err"} :
        /\ Call("FindVolumeByID", r)
        /\ IF r = "err"
             THEN Return("error") /\ UNCHANGED attrs
             ELSE /\ attrs' = attrs \cup {"root_volume_configuration"}
                  /\ Return("ok")
    /\ UNCHANGED id
    /\ OpenzfsUnchanged

resourceOpenzfsFileSystemUpdate ==
    /\ pc = "fsx_update"
    /\ IF HasChangesExcept({"tags_all", "tags"})
         THEN \E r \in {"ok", "err"} :
                /\ Call("UpdateFileSystem", r)
                /\ IF r = "err"
                     THEN Return("error")
                     ELSE pc' = "fsx_update_wait" /\ UNCHANGED status
         ELSE pc' = "fsx_read" /\ UNCHANGED <<calls, status>>
    /\ UNCHANGED <<id, attrs>>
    /\ OpenzfsUnchanged

OpenzfsUpdateWait ==
    /\ pc = "fsx_update_wait"
    /\ \E r \in {"ok", "err"} :
        /\ Call("waitFileSystemUpdated", r)
        /\ IF r = "err"
             THEN Return("error")
             ELSE pc' = "fsx_update_wait_admin" /\ UNCHANGED status
    /\ UNCHANGED <<id, attrs>>
    /\ OpenzfsUnchanged

OpenzfsUpdateWaitAdministrativeAction_IgnoresError ==
    /\ pc = "fsx_update_wait_admin"
    /\ \E r \in {"ok", "err"} :
        /\ Call("waitAdministrativeActionCompleted", r)
        /\ pc' = IF HasChange("root_volume_configuration")
                   THEN "fsx_update_volume" ELSE "fsx_read"
        /\ UNCHANGED status
    /\ UNCHANGED <<id, attrs>>
    /\ OpenzfsUnchanged

OpenzfsUpdateWaitAdministrativeAction ==
    /\ pc = "fsx_update_wait_admin"
    /\ \E r \in {"ok", "err"} :
        /\ Call("waitAdministrativeActionCompleted", r)
        /\ IF r = "err"
             THEN Return("error")
             ELSE /\ pc' = IF HasChange("root_volume_configuration")
                             THEN "fsx_update_volume" ELSE "fsx_read"
                  /\ UNCHANGED status
    /\ UNCHANGED <<id, attrs>>
    /\ OpenzfsUnchanged

OpenzfsUpdateVolume ==
    /\ pc = "fsx_update_volume"
    /\ \E r \in {"ok", "err"} :
        /\ Call("UpdateVolume", r)
        /\ IF r = "err"
             THEN Return("error")
             ELSE pc' = "fsx_update_volume_wait" /\ UNCHANGED status
    /\ UNCHANGED <<id, attrs>>
    /\ OpenzfsUnchanged

OpenzfsUpdateVolumeWait ==
    /\ pc = "fsx_update_volume_wait"
    /\ \E r \in {"ok", "err"} :
        /\ Call("waitVolumeUpdated", r)
        /\ IF r = "err"
             THEN Return("error")
             ELSE pc' = "fsx_read" /\ UNCHANGED status
    /\ UNCHANGED <<id, attrs>>
    /\ OpenzfsUnchanged

resourceOpenzfsFileSystemDelete ==
    /\ pc = "fsx_delete"
    /\ \E r \in {"ok", "notfound", "err"} :
        /\ Call("DeleteFileSystem", r)
        /\ IF r = "notfound"
             THEN Return("ok")
             ELSE IF r = "err"
               THEN Return("error")
               ELSE pc' = "fsx_delete_wait" /\ UNCHANGED status
    /\ UNCHANGED <<id, attrs>>
    /\ OpenzfsUnchanged

OpenzfsDeleteWait ==
    /\ pc = "fsx_delete_wait"
    /\ \E r \in {"ok", "err"} :
        /\ Call("waitFileSystemDeleted", r)
        /\ IF r = "err" THEN Return("error") ELSE Return("ok")
    /\ UNCHANGED <<id, attrs>>
    /\ OpenzfsUnchanged

OpenzfsStep ==
    \/ resourceOpenzfsFileSystemCreate
    \/ OpenzfsCreateWait
    \/ resourceOpenzfsFileSystemRead
    \/ OpenzfsReadRootVolume
    \/ resourceOpenzfsFileSystemUpdate
    \/ OpenzfsUpdateWait
    \/ OpenzfsUpdateWaitAdministrativeAction
    \/ OpenzfsUpdateVolume
    \/ OpenzfsUpdateVolumeWait
    \/ resourceOpenzfsFileSystemDelete
    \/ OpenzfsDeleteWait


\* ------------------------------------------------------------ MemoryDB ACL

ACLAttrs == {"arn", "minimum_engine_version", "name", "name_prefix",
             "user_names"}

ACLUnchanged == UNCHANGED <<res, op, isNew, changed, cfg, elapsed, remote,
                            eventSelectorState, filesystem, trailErr,
                            sweepVars, callVars>>

resourceACLCreate ==
    /\ pc = "acl_create"
    /\ \E r \in {"ok", "err"} :
        /\ Call("CreateACL", r)
        /\ IF r = "err"
             THEN Return("error")
             ELSE pc' = "acl_create_wait" /\ UNCHANGED status
    /\ UNCHANGED <<id, attrs, req, initialUserNames>>
    /\ ACLUnchanged

ACLCreateWait_IgnoresError ==
    /\ pc = "acl_create_wait"
    /\ \E r \in {"ok", "err"} :
        /\ Call("waitACLActive", r)
        /\ id' = AclName /\ pc' = "acl_read" /\ UNCHANGED status
    /\ UNCHANGED <<attrs, req, initialUserNames>>
    /\ ACLUnchanged

\* waitACLActive, then d.SetId(name).
ACLCreateWait ==
    /\ pc = "acl_create_wait"
    /\ \E r \in {"ok", "err"} :
        /\ Call("waitACLActive", r)
        /\ IF r = "err"
             THEN Return("error") /\ UNCHANGED id
             ELSE id' = AclName /\ pc' = "acl_read" /\ UNCHANGED status
    /\ UNCHANGED <<attrs, req, initialUserNames>>
    /\ ACLUnchanged

\* newSet.Difference(oldSet)
UserNamesToAdd(oldSet, newSet) == newSet \ oldSet

UserNamesToRemove_Unfiltered(oldSet, newSet, initial) == oldSet \ newSet

\* The users of oldSet.Difference(newSet) that FindACLByName still reported.
UserNamesToRemove(oldSet, newSet, initial) ==
    {u \in oldSet \ newSet : u \in initial}

resourceACLUpdate_TagsAllNotExcepted ==
    /\ pc = "acl_update"
    /\ IF HasChangesExcept({"tags"})
         THEN \E r \in {"ok", "notfound", "err"}, found \in SUBSET Users :
           /\ Call("FindACLByName", r)
           /\ IF r # "ok"
                THEN /\ Return("error")
                     /\ req' = [req EXCEPT !.UserNamesToAdd =
                           UserNamesToAdd(cfg.old_user_names, cfg.new_user_names)]
                     /\ UNCHANGED initialUserNames
                ELSE /\ initialUserNames' = found
                     /\ req' = [req EXCEPT
                           !.UserNamesToAdd =
                              UserNamesToAdd(cfg.old_user_names, cfg.new_user_names),
                           !.UserNamesToRemove =
                              UserNamesToRemove(cfg.old_user_names,
                                                cfg.new_user_names, found)]
                     /\ pc' = IF req'.UserNamesToAdd # {}
                                 \/ req'.UserNamesToRemove # {}
                                THEN "acl_update_call" ELSE "acl_read"
                     /\ UNCHANGED status
         ELSE /\ pc' = "acl_read"
              /\ UNCHANGED <<calls, status, req, initialUserNames>>
    /\ UNCHANGED <<id, attrs>>
    /\ ACLUnchanged

resourceACLUpdate ==
    /\ pc = "acl_update"
    /\ IF HasChangesExcept({"tags", "tags_all"})
         THEN \E r \in {"ok", "notfound", "err"}, found \in SUBSET Users :
           /\ Call("FindACLByName", r)
           /\ IF r # "ok"
                THEN /\ Return("error")
                     /\ req' = [req EXCEPT !.UserNamesToAdd =
                           UserNamesToAdd(cfg.old_user_names, cfg.new_user_names)]
                     /\ UNCHANGED initialUserNames
                ELSE /\ initialUserNames' = found
                     /\ req' = [req EXCEPT
                           !.UserNamesToAdd =
                              UserNamesToAdd(cfg.old_user_names, cfg.new_user_names),
                           !.UserNamesToRemove =
                              UserNamesToRemove(cfg.old_user_names,
                                                cfg.new_user_names, found)]
                     /\ pc' = IF req'.UserNamesToAdd # {}
                                 \/ req'.UserNamesToRemove # {}
                                THEN "acl_update_call" ELSE "acl_read"
                     /\ UNCHANGED status
         ELSE /\ pc' = "acl_read"
              /\ UNCHANGED <<calls, status, req, initialUserNames>>
    /\ UNCHANGED <<id, attrs>>
    /\ ACLUnchanged

ACLUpdateCall ==
    /\ pc = "acl_update_call"
    /\ \E r \in {"ok", "err"} :
        /\ Call("UpdateACL", r)
        /\ IF r = "err"
             THEN Return("error")
             ELSE pc' = "acl_update_wait" /\ UNCHANGED status
    /\ UNCHANGED <<id, attrs, req, initialUserNames>>
    /\ ACLUnchanged

ACLUpdateWait ==
    /\ pc = "acl_update_wait"
    /\ \E r \in {"ok", "err"} :
        /\ Call("waitACLActive", r)
        /\ IF r = "err"
             THEN Return("error")
             ELSE pc' = "acl_read" /\ UNCHANGED status
    /\ UNCHANGED <<id, attrs, req, initialUserNames>>
    /\ ACLUnchanged

resourceACLRead ==
    /\ pc = "acl_read"
    /\ \E r \in {"ok", "notfound", "err"} :
        /\ Call("FindACLByName", r)
        /\ IF ~isNew /\ r = "notfound"
             THEN id' = "" /\ Return("ok") /\ UNCHANGED attrs
             ELSE IF r # "ok"
               THEN Return("error") /\ UNCHANGED <<id, attrs>>
               ELSE /\ attrs' = attrs \cup ACLAttrs
                    /\ Return("ok")
                    /\ UNCHANGED id
    /\ UNCHANGED <<req, initialUserNames>>
    /\ ACLUnchanged

resourceACLDelete ==
    /\ pc = "acl_delete"
    /\ \E r \in {"ok", "notfound", "err"} :
        /\ Call("DeleteACL", r)
        /\ IF r = "notfound"
             THEN Return("ok")
             ELSE IF r = "err"
               THEN Return("error")
               ELSE pc' = "acl_delete_wait" /\ UNCHANGED status
    /\ UNCHANGED <<id, attrs, req, initialUserNames>>
    /\ ACLUnchanged

ACLDeleteWait ==
    /\ pc = "acl_delete_wait"
    /\ \E r \in {"ok", "err"} :
        /\ Call("waitACLDeleted", r)
        /\ IF r = "err" THEN Return("error") ELSE Return("ok")
    /\ UNCHANGED <<id, attrs, req, initialUserNames>>
    /\ ACLUnchanged

ACLStep ==
    \/ resourceACLCreate
    \/ ACLCreateWait
    \/ resourceACLUpdate
    \/ ACLUpdateCall
    \/ ACLUpdateWait
    \/ resourceACLRead
    \/ resourceACLDelete
    \/ ACLDeleteWait


\* -------------------------------------------------------- CloudTrail trail

\* event_selector blocks as the configuration holds them.
DataResourceConfigs == {<<>>, <<[type |-> "AWS::S3::Object", values |-> <<"arn:aws:s3">>]>>}

EventSelectorBlocks ==
    [read_write_type : {ReadWriteTypeAll, "ReadOnly"},
     include_management_events : BOOLEAN,
     exclude_management_event_sources : {{}, {"kms.amazonaws.com"}},
     data_resource : DataResourceConfigs]

\* The event_selector configurations the handlers are run with.
EventSelectorConfigs ==
    {<<>>,
     <<[read_write_type |-> ReadWriteTypeAll, include_management_events |-> TRUE,
        exclude_management_event_sources |-> {}, data_resource |-> <<>>]>>,
     <<[read_write_type |-> "ReadOnly", include_management_events |-> FALSE,
        exclude_management_event_sources |-> {"kms.amazonaws.com"},
        data_resource |-> <<[type |-> "AWS::S3::Object",
                             values |-> <<"arn:aws:s3">>]>>]>>}

expandEventSelectorDataResource(configured) ==
    [i \in 1..Len(configured) |->
        [Type |-> configured[i].type, Values |-> configured[i].values]]

\* ExcludeManagementEventSources stays unset (empty) unless the set has members.
expandEventSelector(configured) ==
    [i \in 1..Len(configured) |->
        [IncludeManagementEvents |-> configured[i].include_management_events,
         ReadWriteType |-> configured[i].read_write_type,
         DataResources |->
            expandEventSelectorDataResource(configured[i].data_resource),
         ExcludeManagementEventSources |->
            IF Cardinality(configured[i].exclude_management_event_sources) > 0
              THEN configured[i].exclude_management_event_sources
              ELSE {}]]

flattenEventSelectorDataResource(configured) ==
    [i \in 1..Len(configured) |->
        [type |-> configured[i].Type, values |-> configured[i].Values]]

flattenEventSelector_DefaultOnType(configured) ==
    IF /\ Len(configured) = 1
       /\ configured[1].ReadWriteType = ReadWriteTypeAll
      THEN <<>>
      ELSE [i \in 1..Len(configured) |->
              [read_write_type |-> configured[i].ReadWriteType,
               exclude_management_event_sources |->
                  configured[i].ExcludeManagementEventSources,
               include_management_events |->
                  configured[i].IncludeManagementEvents,
               data_resource |->
                  flattenEventSelectorDataResource(configured[i].DataResources)]]

\* The single default selector flattens to no block at all.
flattenEventSelector(configured) ==
    IF /\ Len(configured) = 1
       /\ Len(configured[1].DataResources) = 0
       /\ configured[1].ReadWriteType = ReadWriteTypeAll
       /\ Cardinality(configured[1].ExcludeManagementEventSources) = 0
      THEN <<>>
      ELSE [i \in 1..Len(configured) |->
              [read_write_type |-> configured[i].ReadWriteType,
               exclude_management_event_sources |->
                  configured[i].ExcludeManagementEventSources,
               include_management_events |->
                  configured[i].IncludeManagementEvents,
               data_resource |->
                  flattenEventSelectorDataResource(configured[i].DataResources)]]

\* The selector setEventSelectors falls back to.
DefaultEventSelector ==
    [IncludeManagementEvents |-> TRUE,
     ReadWriteType |-> ReadWriteTypeAll,
     DataResources |-> <<>>,
     ExcludeManagementEventSources |-> {}]

PutEventSelectorsInput_AsExpanded(configured) == expandEventSelector(configured)

\* The EventSelectors of setEventSelectors' PutEventSelectorsInput.
PutEventSelectorsInput(configured) ==
    IF Len(expandEventSelector(configured)) = 0
      THEN Append(expandEventSelector(configured), DefaultEventSelector)
      ELSE expandEventSelector(configured)

\* Errors CreateTrail and UpdateTrail may report.
TrailErrorCodes == {"InvalidCloudWatchLogsRoleArnException",
                    "InvalidCloudWatchLogsLogGroupArnException",
                    "InvalidS3BucketNameException"}
TrailErrorMessages == {"Access denied.",
                       "Access denied. Check the trust policy.",
                       "Bucket does not exist."}
TrailErrors == [code : TrailErrorCodes, message : TrailErrorMessages]

\* err == nil
NoTrailError == [code |-> "", message |-> ""]

\* strings.Contains(message, "Access denied.")
ContainsAccessDenied(message) ==
    message \in {"Access denied.", "Access denied. Check the trust policy."}

\* tfawserr.ErrMessageContains(err, code, "Access denied.")
ErrMessageContains(e, code) == e.code = code /\ ContainsAccessDenied(e.message)

RetryableError_AnyAccessDenied(e) == ContainsAccessDenied(e.message)

\* The retry callback's classification of a CreateTrail / UpdateTrail error.
RetryableError(e) ==
    \/ ErrMessageContains(e, "InvalidCloudWatchLogsRoleArnException")
    \/ ErrMessageContains(e, "InvalidCloudWatchLogsLogGroupArnException")

\* "ok", "retryable" or "err": what one attempt's outcome means to the retry.
Outcome(ok, e) == IF ok THEN "ok"
                  ELSE IF RetryableError(e) THEN "retryable" ELSE "err"

\* retry.RetryContext gives up once propagationTimeout has elapsed; its error
\* is then a timeout, for which tfresource.TimedOut holds.
RetryContextTimedOut(rounds) == rounds >= MaxRetryRounds


\* tfresource.TimedOut(err)
TimedOut(err) == err = "timeout"

\* What the retried CreateTrail / UpdateTrail steps leave alone, and what
\* the other steps of the CloudTrail handlers do.
TrailRetryUnchanged ==
    UNCHANGED <<res, op, isNew, changed, cfg, initialUserNames, filesystem,
                sweepVars, callVars>>

TrailUnchanged == TrailRetryUnchanged /\ UNCHANGED trailErr

CloudTrailCreateNext_AlwaysLogs(done) ==
    IF done < 1 THEN "ct_logging"
    ELSE IF done < 2 /\ cfg.event_selector # <<>> THEN "ct_event_selector"
    ELSE IF done < 3 /\ cfg.advanced_event_selector THEN "ct_advanced"
    ELSE IF done < 4 /\ cfg.insight_selector THEN "ct_insight"
    ELSE "ct_read"

\* The step of resourceCloudTrailCreate that follows step number `done`
\* (0: CreateTrail, 1: logging, 2: event selectors, 3: advanced event
\* selectors, 4: insight selectors).
CloudTrailCreateNext(done) ==
    IF done < 1 /\ cfg.enable_logging THEN "ct_logging"
    ELSE IF done < 2 /\ cfg.event_selector # <<>> THEN "ct_event_selector"
    ELSE IF done < 3 /\ cfg.advanced_event_selector THEN "ct_advanced"
    ELSE IF done < 4 /\ cfg.insight_selector THEN "ct_insight"
    ELSE "ct_read"

\* The same for resourceCloudTrailUpdate (0: UpdateTrail).
CloudTrailUpdateNext(done) ==
    IF done < 1 /\ HasChange("enable_logging") THEN "ct_logging"
    ELSE IF done < 2 /\ ~isNew /\ HasChange("event_selector")
      THEN "ct_event_selector"
    ELSE IF done < 3 /\ ~isNew /\ HasChange("advanced_event_selector")
      THEN "ct_advanced"
    ELSE IF done < 4 /\ ~isNew /\ HasChange("insight_selector")
      THEN "ct_insight"
    ELSE "ct_read"

CloudTrailNext(done) ==
    IF op = "create" THEN CloudTrailCreateNext(done)
                     ELSE CloudTrailUpdateNext(done)

\* The CloudWatch Logs fields of CreateTrailInput: each set when configured.
CreateTrailInput ==
    [req EXCEPT
       !.CloudWatchLogsLogGroupArn =
          IF cfg.cloud_watch_logs_group_arn # ""
            THEN cfg.cloud_watch_logs_group_arn ELSE NIL,
       !.CloudWatchLogsRoleArn =
          IF cfg.cloud_watch_logs_role_arn # ""
            THEN cfg.cloud_watch_logs_role_arn ELSE NIL]

UpdateTrailInput_RoleOnly ==
    [req EXCEPT
       !.CloudWatchLogsRoleArn =
          IF HasChange("cloud_watch_logs_role_arn")
            THEN cfg.cloud_watch_logs_role_arn ELSE NIL,
       !.CloudWatchLogsLogGroupArn =
          IF HasChange("cloud_watch_logs_group_arn")
            THEN cfg.cloud_watch_logs_group_arn ELSE NIL]

\* The CloudWatch Logs fields of UpdateTrailInput: both set, or neither.
UpdateTrailInput ==
    IF HasChanges({"cloud_watch_logs_role_arn", "cloud_watch_logs_group_arn"})
      THEN [req EXCEPT
              !.CloudWatchLogsRoleArn = cfg.cloud_watch_logs_role_arn,
              !.CloudWatchLogsLogGroupArn = cfg.cloud_watch_logs_group_arn]
      ELSE req

\* One attempt of the retried call `api`.  A retryable error is tried again
\* until retry.RetryContext times out; then control passes to `timedOutPc`.
RetriedAttempt(api, timedOutPc, okPc) ==
    \E ok \in BOOLEAN, e \in TrailErrors :
      LET r == Outcome(ok, e) IN
      /\ trailErr' = IF ok THEN NoTrailError ELSE e
      /\ IF r = "ok"
             THEN /\ Call(api, "ok")
                  /\ pc' = okPc
                  /\ UNCHANGED <<status, elapsed>>
           ELSE IF r = "err"
             THEN /\ Call(api, "err")
                  /\ Return("error")
                  /\ UNCHANGED elapsed
           ELSE /\ elapsed' = elapsed + 1
                /\ IF RetryContextTimedOut(elapsed')
                     THEN /\ calls' = calls \o <<[api |-> api, r |-> "retryable"],
                                                 [api |-> "RetryContext",
                                                  r |-> "timeout"]>>
                          /\ IF TimedOut("timeout")
                               THEN pc' = timedOutPc /\ UNCHANGED status
                               ELSE Return("error")
                     ELSE /\ Call(api, "retryable")
                          /\ UNCHANGED <<pc, status>>

FinalAttempt_Retried(api, okPc) ==
    \E ok \in BOOLEAN, e \in TrailErrors :
      /\ Call(api, Outcome(ok, e))
      /\ trailErr' = IF ok THEN NoTrailError ELSE e
      /\ IF ok THEN pc' = okPc /\ UNCHANGED status
         ELSE IF RetryableError(e) THEN UNCHANGED <<pc, status>>
         ELSE Return("error")

\* The one attempt made after the retry timed out; any error is final.
FinalAttempt(api, okPc) ==
    \E ok \in BOOLEAN, e \in TrailErrors :
      /\ Call(api, Outcome(ok, e))
      /\ trailErr' = IF ok THEN NoTrailError ELSE e
      /\ IF ok THEN pc' = okPc /\ UNCHANGED status
               ELSE Return("error")

resourceCloudTrailCreate ==
    /\ pc = "ct_create"
    /\ req' = CreateTrailInput
    /\ RetriedAttempt("CreateTrail", "ct_create_timedout",
                      CloudTrailCreateNext(0))
    /\ id' = IF calls'[Len(calls')].r = "ok" THEN TrailName ELSE id
    /\ UNCHANGED <<attrs, remote, eventSelectorState>>
    /\ TrailRetryUnchanged

CloudTrailCreateTimedOut ==
    /\ pc = "ct_create_timedout"
    /\ FinalAttempt("CreateTrail", CloudTrailCreateNext(0))
    /\ id' = IF calls'[Len(calls')].r = "ok" THEN TrailName ELSE id
    /\ UNCHANGED <<attrs, remote, req, elapsed, eventSelectorState>>
    /\ TrailRetryUnchanged

resourceCloudTrailUpdate ==
    /\ pc = "ct_update"
    /\ IF HasChangesExcept({"tags", "tags_all", "insight_selector",
                            "advanced_event_selector", "event_selector",
                            "enable_logging"})
         THEN /\ req' = UpdateTrailInput
              /\ RetriedAttempt("UpdateTrail", "ct_update_timedout",
                                CloudTrailUpdateNext(0))
         ELSE /\ pc' = CloudTrailUpdateNext(0)
              /\ UNCHANGED <<req, calls, status, elapsed, trailErr>>
    /\ UNCHANGED <<id, attrs, remote, eventSelectorState>>
    /\ TrailRetryUnchanged

CloudTrailUpdateTimedOut ==
    /\ pc = "ct_update_timedout"
    /\ FinalAttempt("UpdateTrail", CloudTrailUpdateNext(0))
    /\ UNCHANGED <<id, attrs, remote, req, elapsed, eventSelectorState>>
    /\ TrailRetryUnchanged

\* The call setLogging makes.
setLogging(enabled) == IF enabled THEN "StartLogging" ELSE "StopLogging"

CloudTrailSetLogging ==
    /\ pc = "ct_logging"
    /\ \E r \in {"ok", "err"} :
        /\ Call(setLogging(cfg.enable_logging), r)
        /\ IF r = "err"
             THEN Return("error")
             ELSE pc' = CloudTrailNext(1) /\ UNCHANGED status
    /\ UNCHANGED <<id, attrs, remote, req, elapsed, eventSelectorState>>
    /\ TrailUnchanged

setEventSelectors ==
    /\ pc = "ct_event_selector"
    /\ req' = [req EXCEPT !.EventSelectors =
                              PutEventSelectorsInput(cfg.event_selector)]
    /\ \E r \in {"ok", "err"} :
        /\ Call("PutEventSelectors", r)
        /\ IF r = "err"
             THEN Return("error") /\ UNCHANGED remote
             ELSE /\ remote' = [remote EXCEPT
                                  !.Put = TRUE,
                                  !.EventSelectors = req'.EventSelectors]
                  /\ pc' = CloudTrailNext(2)
                  /\ UNCHANGED status
    /\ UNCHANGED <<id, attrs, elapsed, eventSelectorState>>
    /\ TrailUnchanged

setAdvancedEventSelectors ==
    /\ pc = "ct_advanced"
    /\ \E r \in {"ok", "err"} :
        /\ Call("PutEventSelectors", r)
        /\ IF r = "err"
             THEN Return("error")
             ELSE pc' = CloudTrailNext(3) /\ UNCHANGED status
    /\ UNCHANGED <<id, attrs, remote, req, elapsed, eventSelectorState>>
    /\ TrailUnchanged

setInsightSelectors ==
    /\ pc = "ct_insight"
    /\ \E r \in {"ok", "err"} :
        /\ Call("PutInsightSelectors", r)
        /\ IF r = "err"
             THEN Return("error")
             ELSE pc' = CloudTrailNext(4) /\ UNCHANGED status
    /\ UNCHANGED <<id, attrs, remote, req, elapsed, eventSelectorState>>
    /\ TrailUnchanged


TrailAttrs == {"name", "s3_bucket_name", "s3_key_prefix",
               "cloud_watch_logs_role_arn", "cloud_watch_logs_group_arn",
               "include_global_service_events", "is_multi_region_trail",
               "is_organization_trail", "sns_topic_name",
               "enable_log_file_validation", "kms_key_id", "arn",
               "home_region"}

\* The trail names DescribeTrails may return.
TrailLists == SUBSET {TrailName, "trail-2"}

TrailAbsent_NewOnly(new, found) == new /\ ~found

\* !d.IsNewResource() && trail == nil
TrailAbsent(new, found) == ~new /\ ~found

resourceCloudTrailRead ==
    /\ pc = "ct_read"
    /\ \E r \in {"ok", "err"}, TrailList \in TrailLists,
          custom \in BOOLEAN, insight \in BOOLEAN :
        LET found == id \in TrailList IN
        /\ Call("DescribeTrails", r)
        /\ IF r = "err"
             THEN Return("error") /\ UNCHANGED <<id, attrs, remote>>
             ELSE /\ remote' = [remote EXCEPT
                                  !.TrailList = TrailList,
                                  !.HasCustomEventSelectors = found /\ custom,
                                  !.HasInsightSelectors = found /\ insight]
                  /\ IF TrailAbsent(isNew, found)
                       THEN id' = "" /\ Return("ok") /\ UNCHANGED attrs
                       ELSE IF isNew /\ ~found
                         THEN Return("error") /\ UNCHANGED <<id, attrs>>
                         ELSE /\ attrs' = attrs \cup TrailAttrs
                              /\ pc' = "ct_read_status"
                              /\ UNCHANGED <<id, status>>
    /\ UNCHANGED <<req, elapsed, eventSelectorState>>
    /\ TrailUnchanged

getLoggingStatus ==
    /\ pc = "ct_read_status"
    /\ \E r \in {"ok", "err"} :
        /\ Call("GetTrailStatus", r)
        /\ IF r = "err"
             THEN Return("error") /\ UNCHANGED attrs
             ELSE /\ attrs' = attrs \cup {"enable_logging"}
                  /\ pc' = "ct_read_selectors"
                  /\ UNCHANGED status
    /\ UNCHANGED <<id, remote, req, elapsed, eventSelectorState>>
    /\ TrailUnchanged

\* The selectors the service may hold for a trail.
RemoteEventSelectors ==
    {<<DefaultEventSelector>>} \cup
    {expandEventSelector(c) : c \in EventSelectorConfigs \ {<<>>}}

\* GetEventSelectors returns what this invocation put, if it put any.
GetEventSelectorsOutputs ==
    IF remote.Put THEN {remote.EventSelectors} ELSE RemoteEventSelectors

CloudTrailReadEventSelectors ==
    /\ pc = "ct_read_selectors"
    /\ \E r \in {"ok", "err"}, EventSelectors \in GetEventSelectorsOutputs :
        /\ Call("GetEventSelectors", r)
        /\ IF r = "err"
             THEN Return("error") /\ UNCHANGED <<attrs, eventSelectorState>>
             ELSE /\ IF remote.HasCustomEventSelectors
                       THEN /\ attrs' = attrs \cup {"event_selector",
                                                    "advanced_event_selector"}
                            /\ eventSelectorState' =
                                  flattenEventSelector(EventSelectors)
                       ELSE UNCHANGED <<attrs, eventSelectorState>>
                  /\ IF remote.HasInsightSelectors
                       THEN pc' = "ct_read_insight" /\ UNCHANGED status
                       ELSE Return("ok")
    /\ UNCHANGED <<id, remote, req, elapsed>>
    /\ TrailUnchanged

\* An InsightNotEnabledException is tolerated; any other error is returned.
CloudTrailReadInsightSelectors ==
    /\ pc = "ct_read_insight"
    /\ \E r \in {"ok", "InsightNotEnabledException", "err"} :
        /\ Call("GetInsightSelectors", r)
        /\ IF r = "err"
             THEN Return("error") /\ UNCHANGED attrs
             ELSE attrs' = attrs \cup {"insight_selector"} /\ Return("ok")
    /\ UNCHANGED <<id, remote, req, elapsed, eventSelectorState>>
    /\ TrailUnchanged

resourceCloudTrailDelete_NotFoundIsError ==
    /\ pc = "ct_delete"
    /\ \E r \in {"ok", "notfound", "err"} :
        /\ Call("DeleteTrail", r)
        /\ IF r = "ok" THEN Return("ok") ELSE Return("error")
    /\ UNCHANGED <<id, attrs, remote, req, elapsed, eventSelectorState>>
    /\ TrailUnchanged

resourceCloudTrailDelete ==
    /\ pc = "ct_delete"
    /\ \E r \in {"ok", "notfound", "err"} :
        /\ Call("DeleteTrail", r)
        /\ IF r = "notfound"
             THEN Return("ok")
             ELSE IF r = "err" THEN Return("error") ELSE Return("ok")
    /\ UNCHANGED <<id, attrs, remote, req, elapsed, eventSelectorState>>
    /\ TrailUnchanged

CloudTrailStep ==
    \/ resourceCloudTrailCreate
    \/ CloudTrailCreateTimedOut
    \/ resourceCloudTrailUpdate
    \/ CloudTrailUpdateTimedOut
    \/ CloudTrailSetLogging
    \/ setEventSelectors
    \/ setAdvancedEventSelectors
    \/ setInsightSelectors
    \/ resourceCloudTrailRead
    \/ getLoggingStatus
    \/ CloudTrailReadEventSelectors
    \/ CloudTrailReadInsightSelectors
    \/ resourceCloudTrailDelete


\* -------------------------------------------- sweepers: the shared client

Regions == {"us-west-2", "us-east-1"}

\* The environment variables SharedRegionalSweepClient reads.  An
\* environment is the set of those that are set (non-empty);
\* "TF_AWS_ASSUME_ROLE_DURATION=x" stands for a duration that is no number.
EnvProfile == "AWS_PROFILE"
EnvAccessKeyId == "AWS_ACCESS_KEY_ID"
EnvContainerCredentialsFullURI == "AWS_CONTAINER_CREDENTIALS_FULL_URI"
EnvSecretAccessKey == "AWS_SECRET_ACCESS_KEY"
EnvAssumeRoleARN == "TF_AWS_ASSUME_ROLE_ARN"
EnvAssumeRoleDuration == "TF_AWS_ASSUME_ROLE_DURATION"
EnvAssumeRoleDurationInvalid == "TF_AWS_ASSUME_ROLE_DURATION=x"

Environments ==
    {e \in SUBSET {EnvProfile, EnvAccessKeyId, EnvContainerCredentialsFullURI,
                   EnvSecretAccessKey, EnvAssumeRoleARN, EnvAssumeRoleDuration,
                   EnvAssumeRoleDurationInvalid} :
        EnvAssumeRoleDurationInvalid \in e => EnvAssumeRoleDuration \in e}

\* envvar.RequireOneOf: an error unless one of the names is set.
RequireOneOf(e, names) == (e \cap names) # {}

\* envvar.Require: an error unless the name is set.
Require(e, name) == name \in e

\* What a call that finds no cached client runs, in order, up to the first
\* failure: <<steps, ok>>.  `configured` is ConfigureProvider's outcome.
SweepClientSetup(e, configured) ==
    IF ~RequireOneOf(e, {EnvProfile, EnvAccessKeyId,
                         EnvContainerCredentialsFullURI})
      THEN <<<<"RequireOneOf">>, FALSE>>
    ELSE IF EnvAccessKeyId \in e /\ ~Require(e, EnvSecretAccessKey)
      THEN <<<<"RequireOneOf", "Require">>, FALSE>>
    ELSE LET checks == IF EnvAccessKeyId \in e
                         THEN <<"RequireOneOf", "Require">>
                         ELSE <<"RequireOneOf">>
         IN IF /\ EnvAssumeRoleARN \in e
               /\ EnvAssumeRoleDuration \in e
               /\ EnvAssumeRoleDurationInvalid \in e
              THEN <<Append(checks, "Atoi"), FALSE>>
              ELSE <<Append(checks, "ConfigureProvider"), configured>>

SweepCached_Never(region) == FALSE

\* client, ok := sweeperClients[region]
SweepCached(region) == region \in DOMAIN sweeperClients

SharedRegionalSweepClient ==
    \E region \in Regions, e \in Environments, configured \in BOOLEAN :
      /\ nextClient <= MaxClients
      /\ env' = e
      /\ sweepCalled' = TRUE
      /\ sweepRegion' = region
      /\ IF SweepCached(region)
           THEN /\ sweepClient' = sweeperClients[region]
                /\ sweepErr' = FALSE
                /\ sweepSteps' = <<>>
                /\ UNCHANGED <<sweeperClients, nextClient>>
           ELSE LET setup == SweepClientSetup(e, configured) IN
                /\ sweepSteps' = setup[1]
                /\ sweepErr' = ~setup[2]
                /\ IF setup[2]
                     THEN /\ sweepClient' = nextClient
                          /\ sweeperClients' =
                                (region :> nextClient) @@ sweeperClients
                          /\ nextClient' = nextClient + 1
                     ELSE /\ sweepClient' = 0
                          /\ UNCHANGED <<sweeperClients, nextClient>>
      /\ UNCHANGED <<crudVars, callVars>>

\* ------------------------------------------- sweepers: errors to skip

\* The texts the messages of errors are built from.  A message is a sequence
\* of them; strings.Contains finds a text inside a longer one.
\* An error: nil (nil = TRUE), or a chain that may hold an AWS error (aws, with code and
\* message) and may hold a *net.DNSError (dns, with IsNotFound).
NilError ==
    [nil |-> TRUE, aws |-> FALSE, code |-> "", message |-> <<>>,
     dns |-> FALSE, IsNotFound |-> FALSE]

SweepErrors ==
    LET MessageTexts ==
            {"send request failed",
             "not permitted in this API version for your account",
             "Access Denied to API Version",
             "not supported",
             "is not supported in this region",
             "is not valid",
             "Unavailable Operation",
             "cannot be deleted because",
             "Due to DNS lookup failure",
             "Operation is disabled in this region",
             "The requested operation is not supported in the called region",
             "command is only supported in",
             "Account is not whitelisted to use this feature",
             "rate exceeded"}

        ErrorCodes ==
            {"RequestError", "UnsupportedOperation", "InvalidParameterValue",
             "AccessDeniedException", "BadRequestException", "InvalidAction",
             "InvalidKeySigningKeyStatus", "KeySigningKeyInParentDSRecord",
             "UnknownOperationException", "UnsupportedCommandException",
             "ValidationException", "Throttling"}

        Messages == UNION {[1..n -> MessageTexts] : n \in 0..MaxMessageTexts}
    IN
    {NilError} \cup
    [nil : {FALSE}, aws : {TRUE}, code : ErrorCodes, message : Messages,
     dns : BOOLEAN, IsNotFound : BOOLEAN] \cup
    [nil : {FALSE}, aws : {FALSE}, code : {""}, message : {<<>>},
     dns : BOOLEAN, IsNotFound : BOOLEAN]

\* strings.Contains on one text.
TextContains(text, sub) ==
    \/ text = sub
    \/ /\ sub = "not supported"
       /\ text \in {"is not supported in this region",
                    "The requested operation is not supported in the called region"}

\* strings.Contains(message, sub)
Contains(message, sub) ==
    \E i \in DOMAIN message : TextContains(message[i], sub)

\* tfawserr.ErrCodeEquals(err, code)
ErrCodeEquals(err, code) ==
    ~err.nil /\ err.aws /\ err.code = code

\* tfawserr.ErrMessageContains(err, code, message)
ErrCodeMessageContains(err, code, message) ==
    ~err.nil /\ err.aws /\ err.code = code /\ Contains(err.message, message)

SkipSweepError_AnyDNSError(err) ==
    \/ ErrCodeEquals(err, "UnsupportedOperation")
    \/ ErrCodeEquals(err, "AccessDeniedException")
    \/ ~err.nil /\ err.dns

SkipSweepError(err) ==
    IF ErrCodeMessageContains(err, "RequestError", "send request failed")
      THEN TRUE
    ELSE IF ErrCodeEquals(err, "UnsupportedOperation")
      THEN TRUE
    ELSE IF ErrCodeMessageContains(err, "InvalidParameterValue",
                "not permitted in this API version for your account")
      THEN TRUE
    ELSE IF ErrCodeMessageContains(err, "InvalidParameterValue",
                "Access Denied to API Version")
      THEN TRUE
    ELSE IF ErrCodeEquals(err, "AccessDeniedException")
      THEN TRUE
    ELSE IF ErrCodeMessageContains(err, "BadRequestException", "not supported")
      THEN TRUE
    ELSE IF ErrCodeMessageContains(err, "InvalidAction",
                "is not supported in this region")
      THEN TRUE
    ELSE IF ErrCodeMessageContains(err, "InvalidAction", "is not valid")
      THEN TRUE
    ELSE IF ErrCodeMessageContains(err, "InvalidAction", "Unavailable Operation")
      THEN TRUE
    ELSE IF ErrCodeMessageContains(err, "InvalidKeySigningKeyStatus",
                "cannot be deleted because")
      THEN TRUE
    ELSE IF ErrCodeMessageContains(err, "KeySigningKeyInParentDSRecord",
                "Due to DNS lookup failure")
      THEN TRUE
    ELSE IF ErrCodeMessageContains(err, "UnknownOperationException",
                "Operation is disabled in this region")
      THEN TRUE
    ELSE IF ErrCodeMessageContains(err, "UnknownOperationException",
                "The requested operation is not supported in the called region")
      THEN TRUE
    ELSE IF ErrCodeMessageContains(err, "UnsupportedCommandException",
                "command is only supported in")
      THEN TRUE
    ELSE IF ErrCodeMessageContains(err, "ValidationException",
                "Account is not whitelisted to use this feature")
      THEN TRUE
    ELSE IF ~err.nil /\ err.dns
      THEN err.IsNotFound
    ELSE FALSE

\* A call of a function on its own: the argument and what it returned.
Returns(f, a, r) ==
    /\ callee' = f
    /\ argument' = a
    /\ returned' = r
    /\ UNCHANGED <<crudVars, sweepVars>>

\* A behaviour holds one call of a function on its own.
NotCalled == callee = ""

SkipSweepErrorCall ==
    /\ NotCalled
    /\ \E err \in SweepErrors :
          Returns("SkipSweepError", err, SkipSweepError(err))

\* ------------------------------------- FSx OpenZFS file system: the plan

OpenZFSDeploymentTypeSingleAz1 == "SINGLE_AZ_1"
OpenZFSDeploymentTypeSingleAz2 == "SINGLE_AZ_2"
singleAZ1ThroughputCapacityValues == {64, 128, 256, 512, 1024, 2048, 3072, 4096}
singleAZ2ThroughputCapacityValues ==
    {160, 320, 640, 1280, 2560, 3840, 5120, 7680, 10240}

Plans ==
    LET OpenZFSDeploymentTypes ==
            {OpenZFSDeploymentTypeSingleAz1, OpenZFSDeploymentTypeSingleAz2,
             "MULTI_AZ_1"}

        \* The throughput capacities and iops values plans are drawn from: the
        \* valid capacities and the limits of the iops ranges, with neighbours.
        ThroughputCapacities ==
            singleAZ1ThroughputCapacityValues \cup singleAZ2ThroughputCapacityValues
                \cup {0, 63, 65, 4097, 10241}

        IopsValues == {-1, 0, 1, 3000, 160000, 160001, 350000, 350001}

        \* disk_iops_configuration: no block, or one block.
        DiskIopsConfigurations ==
            {<<>>} \cup {<<m>> : m \in [mode : {"AUTOMATIC", "USER_PROVISIONED"},
                                        iops : IopsValues]}
    IN
    [deployment_type : OpenZFSDeploymentTypes,
     throughput_capacity : ThroughputCapacities,
     disk_iops_configuration : DiskIopsConfigurations]

\* verify.SetTagsDiff computes tags_all; it rejects no plan.
SetTagsDiff(d) == FALSE

validateDiskConfigurationIOPS_OneRange(d) ==
    /\ d.disk_iops_configuration # <<>>
    /\ d.deployment_type \in {OpenZFSDeploymentTypeSingleAz1,
                              OpenZFSDeploymentTypeSingleAz2}
    /\ LET v == d.disk_iops_configuration[1].iops
       IN v < 0 \/ v > 160000

\* TRUE: an error is returned.
validateDiskConfigurationIOPS(d) ==
    LET deploymentType == d.deployment_type
        diskConfiguration == d.disk_iops_configuration
    IN IF Len(diskConfiguration) > 0
         THEN LET v == diskConfiguration[1].iops IN
              IF deploymentType = OpenZFSDeploymentTypeSingleAz1
                THEN v < 0 \/ v > 160000
              ELSE IF deploymentType = OpenZFSDeploymentTypeSingleAz2
                THEN v < 0 \/ v > 350000
              ELSE FALSE
         ELSE FALSE

validateThroughputCapacity_OneList(d) ==
    /\ d.deployment_type \in {OpenZFSDeploymentTypeSingleAz1,
                              OpenZFSDeploymentTypeSingleAz2}
    /\ d.throughput_capacity \notin singleAZ1ThroughputCapacityValues

\* The function literal in CustomizeDiff.  TRUE: an error is returned.
validateThroughputCapacity(d) ==
    LET deploymentType == d.deployment_type
        throughputCapacity == d.throughput_capacity
    IN IF deploymentType = OpenZFSDeploymentTypeSingleAz1
         THEN throughputCapacity \notin singleAZ1ThroughputCapacityValues
       ELSE IF deploymentType = OpenZFSDeploymentTypeSingleAz2
         THEN throughputCapacity \notin singleAZ2ThroughputCapacityValues
       ELSE FALSE

\* customdiff.All: every function runs; the plan is rejected if one fails.
CustomizeDiff(d) ==
    \/ SetTagsDiff(d)
    \/ validateDiskConfigurationIOPS(d)
    \/ validateThroughputCapacity(d)

CustomizeDiffCall ==
    /\ NotCalled
    /\ \E d \in Plans : Returns("CustomizeDiff", d, CustomizeDiff(d))

validateThroughputCapacityCall ==
    /\ NotCalled
    /\ \E d \in Plans :
          Returns("validateThroughputCapacity", d, validateThroughputCapacity(d))

validateDiskConfigurationIOPSCall ==
    /\ NotCalled
    /\ \E d \in Plans :
          Returns("validateDiskConfigurationIOPS", d,
                  validateDiskConfigurationIOPS(d))

\* ------------------------------------ security group rule: test checks

\* An *int64 is <<>> (nil) or <<n>>; a *string is NIL or the string.  The
\* entries of IpRanges, Ipv6Ranges, UserIdGroupPairs and PrefixListIds are
\* given by their CidrIp, CidrIpv6, GroupId and PrefixListId.
DefaultIpPermission ==
    [FromPort |-> <<80>>, ToPort |-> <<8000>>, IpProtocol |-> "tcp",
     IpRanges |-> <<"10.0.0.0/8">>, Ipv6Ranges |-> <<>>,
     UserIdGroupPairs |-> <<>>, PrefixListIds |-> <<>>]

\* The arguments of one check: whether the state holds resource n and its
\* ID, the group, the expected permission (nil = TRUE: p == nil) and the
\* rule type.
RuleAttributesChecks ==
    LET \* The rules a described security group holds.  EC2 lists a CIDR, group or
        \* prefix list once in a rule.
        GroupRules ==
            {[FromPort |-> f, ToPort |-> <<8000>>, IpProtocol |-> "tcp",
              IpRanges |-> c, Ipv6Ranges |-> o[1], UserIdGroupPairs |-> o[2],
              PrefixListIds |-> o[3]] :
                f \in {<<>>, <<80>>},
                c \in {<<>>, <<"10.0.0.0/8">>, <<"10.0.0.0/8", "192.168.0.0/16">>},
                o \in {<<<<>>, <<>>, <<>>>>,
                       <<<<"::/0">>, <<"sg-1">>, <<"pl-1">>>>}}

        GroupRuleLists == UNION {[1..n -> GroupRules] : n \in 0..MaxRules}

        EgressRuleLists ==
            {<<>>,
             <<[FromPort |-> <<80>>, ToPort |-> <<8000>>, IpProtocol |-> "tcp",
                IpRanges |-> <<"10.0.0.0/8">>, Ipv6Ranges |-> <<"::/0">>,
                UserIdGroupPairs |-> <<"sg-1">>, PrefixListIds |-> <<"pl-1">>]>>}

        SecurityGroups ==
            [IpPermissions : GroupRuleLists, IpPermissionsEgress : EgressRuleLists]

        \* The expected permissions of the checks.
        ExpectedPermissions ==
            {[FromPort |-> f, ToPort |-> <<8000>>, IpProtocol |-> t,
              IpRanges |-> c, Ipv6Ranges |-> o[1], UserIdGroupPairs |-> o[2],
              PrefixListIds |-> o[3]] :
                f \in {<<80>>, <<443>>},
                t \in {NIL, "udp"},
                c \in {<<>>, <<"10.0.0.0/8">>, <<"10.0.0.0/8", "192.168.0.0/16">>,
                       <<NIL>>},
                o \in {<<<<>>, <<>>, <<>>>>, <<<<"::/0">>, <<>>, <<>>>>,
                       <<<<>>, <<"sg-1">>, <<>>>>, <<<<>>, <<>>, <<"pl-1">>>>}}
    IN
    [found : {TRUE}, id : {"sgrule-1"}, group : SecurityGroups, nil : {FALSE},
     p : ExpectedPermissions, ruleType : {"ingress", "egress"}]
    \cup
    [found : {TRUE}, id : {"sgrule-1"}, group : SecurityGroups, nil : {TRUE},
     p : {DefaultIpPermission}, ruleType : {"ingress", "egress"}]
    \cup
    [found : BOOLEAN, id : {"", "sgrule-1"},
     group : {[IpPermissions |-> <<DefaultIpPermission>>,
               IpPermissionsEgress |-> <<>>]},
     nil : {TRUE}, p : {DefaultIpPermission}, ruleType : {"ingress"}]

\* A pointer comparison of the loop: both set, and different.
BothSetAndDiffer(a, b) == a # <<>> /\ b # <<>> /\ a # b

\* `remaining` after the two nested loops over an expected list and a
\* rule's list: its length less one for every pair of equal, non-nil entries.
Remaining(expected, actual) ==
    Len(expected) -
      Cardinality({ij \in (DOMAIN expected) \X (DOMAIN actual) :
                      /\ expected[ij[1]] # NIL
                      /\ actual[ij[2]] # NIL
                      /\ expected[ij[1]] = actual[ij[2]]})

RuleMatches_PortsOnly(p, r) ==
    /\ ~BothSetAndDiffer(p.ToPort, r.ToPort)
    /\ ~BothSetAndDiffer(p.FromPort, r.FromPort)

\* The body of the loop over the rules: no `continue` is taken.
RuleMatches(p, r) ==
    /\ ~BothSetAndDiffer(p.ToPort, r.ToPort)
    /\ ~BothSetAndDiffer(p.FromPort, r.FromPort)
    /\ ~(p.IpProtocol # NIL /\ r.IpProtocol # NIL /\ p.IpProtocol # r.IpProtocol)
    /\ ~(Remaining(p.IpRanges, r.IpRanges) > 0)
    /\ ~(Remaining(p.Ipv6Ranges, r.Ipv6Ranges) > 0)
    /\ ~(Remaining(p.UserIdGroupPairs, r.UserIdGroupPairs) > 0)
    /\ ~(Remaining(p.PrefixListIds, r.PrefixListIds) > 0)

\* "ok" for a nil error, else the error.
testAccCheckSecurityGroupRuleAttributes(a) ==
    IF ~a.found THEN "Security Group Rule Not found"
    ELSE IF a.id = "" THEN "No Security Group Rule is set"
    ELSE LET p == IF a.nil THEN DefaultIpPermission ELSE a.p
             rules == IF a.ruleType = "ingress"
                        THEN a.group.IpPermissions
                        ELSE a.group.IpPermissionsEgress
         IN IF Len(rules) = 0 THEN "No IPPerms"
            ELSE IF \E i \in DOMAIN rules : RuleMatches(p, rules[i])
              THEN "ok"
              ELSE "Error here"

testAccCheckSecurityGroupRuleAttributesCall ==
    /\ NotCalled
    /\ \E a \in RuleAttributesChecks :
          Returns("testAccCheckSecurityGroupRuleAttributes", a,
                  testAccCheckSecurityGroupRuleAttributes(a))

\* ------------------------------- security group rule: the hash-based ID

\* Strings are sequences of characters here, so that formatting, sorting
\* and hashing work on their bytes.
Chars45 == <<"-", ".", "/", "0", "1", "2", "3", "4", "5", "6", "7", "8", "9",
             ":">>
\* The byte of a character: "-" is 45, "0" is 48, "a" is 97.
Ascii(c) ==
    LET LowerCase == <<"a", "b", "c", "d", "e", "f", "g", "h", "i", "j", "k",
                       "l", "m", "n", "o", "p", "q", "r", "s", "t", "u", "v",
                       "w", "x", "y", "z">>
    IN IF \E i \in DOMAIN Chars45 : Chars45[i] = c
         THEN 44 + (CHOOSE i \in DOMAIN Chars45 : Chars45[i] = c)
         ELSE 96 + (CHOOSE i \in DOMAIN LowerCase : LowerCase[i] = c)

\* A uint32 is <<high 16 bits, low 16 bits>>.
RECURSIVE Xor(_, _)
Xor(a, b) ==
    IF a = 0 THEN b
    ELSE IF b = 0 THEN a
    ELSE (((a % 2) + (b % 2)) % 2) + (2 * Xor(a \div 2, b \div 2))

Xor32(v, w) == <<Xor(v[1], w[1]), Xor(v[2], w[2])>>

\* crc32.IEEE, reversed: 0xedb88320
IEEE == <<60856, 33568>>

RECURSIVE UpdateBits(_, _)
UpdateBits(w, n) ==
    LET ShiftRight == <<w[1] \div 2, ((w[1] % 2) * 32768) + (w[2] \div 2)>>
    IN IF n = 0 THEN w
       ELSE UpdateBits(IF (w[2] % 2) = 1 THEN Xor32(ShiftRight, IEEE)
                                       ELSE ShiftRight,
                       n - 1)

\* crc = tab[byte(crc)^v] ^ (crc >> 8), tab[n] being n after eight bit steps
UpdateByte(w, v) ==
    Xor32(UpdateBits(<<0, Xor(w[2] % 256, v)>>, 8),
          <<w[1] \div 256, ((w[1] % 256) * 256) + (w[2] \div 256)>>)

\* crc32.Update without the inversions: the register after the bytes of p.
\* The bytes are taken half by half, the register after the first half being
\* the register before the second.
RECURSIVE Update(_, _)
Update(crc, p) ==
    IF p = <<>> THEN crc
    ELSE IF Len(p) = 1 THEN UpdateByte(crc, p[1])
    ELSE LET half == Len(p) \div 2
         IN CHOOSE next \in {Update(prev, SubSeq(p, half + 1, Len(p))) :
                                prev \in {Update(crc, SubSeq(p, 1, half))}} : TRUE

\* crc32.ChecksumIEEE: the register starts and ends inverted.
ChecksumIEEE(bytes) ==
    Xor32(Update(<<65535, 65535>>, bytes), <<65535, 65535>>)

StringHashcode(str) == ChecksumIEEE([i \in DOMAIN str |-> Ascii(str[i])])

\* fmt.Sprintf("%d", w) for a uint32
RECURSIVE FormatUint(_)
FormatUint(w) ==
    LET t == ((w[1] % 10) * 65536) + w[2]
        q == <<w[1] \div 10, t \div 10>>
    IN (IF q = <<0, 0>> THEN <<>> ELSE FormatUint(q))
          \o <<Chars45[4 + (t % 10)]>>

\* s < t for strings
RECURSIVE StringLess(_, _)
StringLess(str, t) ==
    IF t = <<>> THEN FALSE
    ELSE IF str = <<>> THEN TRUE
    ELSE IF Ascii(Head(str)) # Ascii(Head(t))
      THEN Ascii(Head(str)) < Ascii(Head(t))
    ELSE StringLess(Tail(str), Tail(t))

\* sort.Strings
RECURSIVE SortStrings(_)
SortStrings(strs) ==
    IF strs = <<>> THEN <<>>
    ELSE LET rest == SortStrings(Tail(strs))
             before == {i \in DOMAIN rest : StringLess(rest[i], Head(strs))}
             n == Cardinality(before)
         IN SubSeq(rest, 1, n) \o <<Head(strs)>> \o SubSeq(rest, n + 1, Len(rest))

\* ByGroupPair.Less: by GroupId when both have one, else by GroupName.
\* A *string is <<>> (nil) or <<string>>.
GroupPairLess(a, b) ==
    IF a.GroupId # <<>> /\ b.GroupId # <<>>
      THEN StringLess(a.GroupId[1], b.GroupId[1])
      ELSE StringLess(a.GroupName[1], b.GroupName[1])

\* sort.Sort(ByGroupPair(pairs))
RECURSIVE SortGroupPairs(_)
SortGroupPairs(pairs) ==
    IF pairs = <<>> THEN <<>>
    ELSE LET rest == SortGroupPairs(Tail(pairs))
             before == {i \in DOMAIN rest : GroupPairLess(rest[i], Head(pairs))}
             n == Cardinality(before)
         IN SubSeq(rest, 1, n) \o <<Head(pairs)>> \o SubSeq(rest, n + 1, Len(rest))

\* Each string followed by "-".
RECURSIVE WriteStrings(_)
WriteStrings(strs) ==
    IF strs = <<>> THEN <<>>
    ELSE Head(strs) \o <<"-">> \o WriteStrings(Tail(strs))

\* Each pair's GroupId and GroupName, each followed by "-" ("-" alone for
\* nil).
RECURSIVE WriteGroupPairs(_)
WriteGroupPairs(pairs) ==
    IF pairs = <<>> THEN <<>>
    ELSE (IF Head(pairs).GroupId # <<>> THEN Head(pairs).GroupId[1] ELSE <<>>)
           \o <<"-">>
           \o (IF Head(pairs).GroupName # <<>> THEN Head(pairs).GroupName[1]
               ELSE <<>>)
           \o <<"-">>
           \o WriteGroupPairs(Tail(pairs))

IPPermissionIDHash_TypeLeftOut(sg_id, ruleType, ip) ==
    <<"s", "g", "r", "u", "l", "e", "-">> \o
        FormatUint(StringHashcode(sg_id \o <<"-">> \o ip.IpProtocol \o <<"-">>
                                  \o WriteStrings(SortStrings(ip.IpRanges))))

\* The ID of a rule: "sgrule-" and the hash of the group ID, the ports, the
\* protocol, the rule type and the sorted sources.
IPPermissionIDHash(sg_id, ruleType, ip) ==
    LET buf ==
          sg_id \o <<"-">>
          \o (IF ip.FromPort # <<>> /\ ip.FromPort[1] > 0
                THEN FormatUint(<<0, ip.FromPort[1]>>) \o <<"-">> ELSE <<>>)
          \o (IF ip.ToPort # <<>> /\ ip.ToPort[1] > 0
                THEN FormatUint(<<0, ip.ToPort[1]>>) \o <<"-">> ELSE <<>>)
          \o ip.IpProtocol \o <<"-">>
          \o ruleType \o <<"-">>
          \o WriteStrings(SortStrings(ip.IpRanges))
          \o WriteGroupPairs(SortGroupPairs(ip.UserIdGroupPairs))
    IN <<"s", "g", "r", "u", "l", "e", "-">> \o FormatUint(StringHashcode(buf))

Ingress == <<"i", "n", "g", "r", "e", "s", "s">>
Egress == <<"e", "g", "r", "e", "s", "s">>
Tcp == <<"t", "c", "p">>

Cidr10 == <<"1", "0", ".", "0", ".", "0", ".", "0", "/", "8">>

\* The permissions of TestIPPermissionIDHash.
\* cases: the permissions and the hardcoded hashes
IPPermissionIDHashCases ==
    LET simple ==
            [IpProtocol |-> Tcp, FromPort |-> <<80>>, ToPort |-> <<8000>>,
             IpRanges |-> <<Cidr10>>, UserIdGroupPairs |-> <<>>]

        egress == simple

        egress_all ==
            [IpProtocol |-> <<"-", "1">>, FromPort |-> <<>>, ToPort |-> <<>>,
             IpRanges |-> <<Cidr10>>, UserIdGroupPairs |-> <<>>]

        vpc_security_group_source ==
            [IpProtocol |-> Tcp, FromPort |-> <<80>>, ToPort |-> <<8000>>,
             IpRanges |-> <<>>,
             UserIdGroupPairs |->
                <<[GroupId |-> <<<<"s", "g", "-", "1", "2", "3", "4", "5", "6", "7", "8">>>>, GroupName |-> <<>>],
                  [GroupId |-> <<<<"s", "g", "-", "9", "8", "7", "6", "5", "4", "3", "2", "1">>>>, GroupName |-> <<>>],
                  [GroupId |-> <<<<"s", "g", "-", "1", "2", "3", "4", "5", "6", "7", "8">>>>, GroupName |-> <<>>]>>]

        security_group_source ==
            [IpProtocol |-> Tcp, FromPort |-> <<80>>, ToPort |-> <<8000>>,
             IpRanges |-> <<>>,
             UserIdGroupPairs |->
                <<[GroupId |-> <<>>, GroupName |-> <<<<"m", "y", "-", "s", "e", "c", "u", "r", "i", "t", "y", "-", "g", "r", "o", "u", "p">>>>],
                  [GroupId |-> <<>>, GroupName |-> <<<<"m", "y", "-", "s", "e", "c", "u", "r", "i", "t", "y", "-", "g", "r", "o", "u", "p">>>>],
                  [GroupId |-> <<>>, GroupName |-> <<<<"m", "y", "-", "o", "t", "h", "e", "r", "-", "s", "e", "c", "u", "r", "i", "t", "y", "-", "g", "r", "o", "u", "p">>>>]>>]
    IN
    <<[Input |-> simple, Type |-> Ingress,
       Output |-> <<"s", "g", "r", "u", "l", "e", "-", "3", "4", "0", "3", "4", "9", "7", "3", "1", "4">>],
      [Input |-> egress, Type |-> Egress,
       Output |-> <<"s", "g", "r", "u", "l", "e", "-", "1", "1", "7", "3", "1", "8", "6", "2", "9", "5">>],
      [Input |-> egress_all, Type |-> Egress,
       Output |-> <<"s", "g", "r", "u", "l", "e", "-", "7", "6", "6", "3", "2", "3", "4", "9", "8">>],
      [Input |-> vpc_security_group_source, Type |-> Egress,
       Output |-> <<"s", "g", "r", "u", "l", "e", "-", "3", "5", "1", "2", "2", "5", "3", "6", "4">>],
      [Input |-> security_group_source, Type |-> Egress,
       Output |-> <<"s", "g", "r", "u", "l", "e", "-", "2", "1", "9", "8", "8", "0", "7", "1", "8", "8">>]>>

\* The permissions IPPermissionIDHash is called with.
IpPermissions ==
    [IpProtocol : {Tcp, <<"-", "1">>},
     FromPort : {<<>>, <<0>>, <<80>>},
     ToPort : {<<>>, <<8000>>},
     IpRanges : {<<>>, <<Cidr10>>,
                 <<<<"1", "9", "2", ".", "1", "6", "8", ".", "0", ".", "0",
                     "/", "1", "6">>, Cidr10>>},
     UserIdGroupPairs : {<<>>, IPPermissionIDHashCases[4].Input.UserIdGroupPairs}]

\* The test: the cases for which t.Errorf is called.
TestIPPermissionIDHash ==
    /\ NotCalled
    /\ Returns("TestIPPermissionIDHash", IPPermissionIDHashCases,
               {i \in DOMAIN IPPermissionIDHashCases :
                   IPPermissionIDHash(<<"s", "g", "-", "1", "2", "3", "4", "5">>,
                                      IPPermissionIDHashCases[i].Type,
                                      IPPermissionIDHashCases[i].Input)
                     # IPPermissionIDHashCases[i].Output})

\* The IDs of one permission of one group as an ingress and as an egress
\* rule.
IPPermissionIDHashCall ==
    /\ NotCalled
    /\ \E sg_id \in {<<"s", "g", "-", "1", "2", "3", "4", "5">>,
                    <<"s", "g", "-", "9", "8", "7", "6", "5", "4", "3", "2", "1">>},
          ip \in IpPermissions :
          Returns("IPPermissionIDHash", [sg_id |-> sg_id, ip |-> ip],
                  [ingress |-> IPPermissionIDHash(sg_id, Ingress, ip),
                   egress |-> IPPermissionIDHash(sg_id, Egress, ip)])

\* ------------------------------------------------------------ types.IsZero

\* A Go value: its kind and, by kind, its bool, int or string, whether it is
\* nil, its length (int, for a slice), its fields (a struct) or the value it
\* holds (fields, for a non-nil interface).
GoValue(kind, b, n, str, isNil, fields) ==
    [kind |-> kind, bool |-> b, int |-> n, str |-> str, nil |-> isNil,
     fields |-> fields]

\* v *T: nil, or pointing to a value of type T.
Pointers ==
    LET \* The types T that IsZero is instantiated with.
        GoTypes == {"bool", "int", "string", "pointer", "slice", "struct", "interface"}

        \* The values of a type other than struct and interface.
        BasicValues(T) ==
            IF T = "bool" THEN {GoValue(T, b, 0, "", FALSE, <<>>) : b \in BOOLEAN}
            ELSE IF T = "int" THEN {GoValue(T, FALSE, n, "", FALSE, <<>>) : n \in {-1, 0, 1}}
            ELSE IF T = "string"
              THEN {GoValue(T, FALSE, 0, str, FALSE, <<>>) : str \in {"", "a"}}
            ELSE IF T = "pointer"
              THEN {GoValue(T, FALSE, 0, "", isNil, <<>>) : isNil \in BOOLEAN}
            ELSE {GoValue(T, FALSE, 0, "", TRUE, <<>>)}
                   \cup {GoValue(T, FALSE, n, "", FALSE, <<>>) : n \in {0, 1}}

        \* The values of an interface type: nil, or holding a value of a type that
        \* is not an interface type.
        InterfaceValues ==
            {GoValue("interface", FALSE, 0, "", TRUE, <<>>)}
              \cup {GoValue("interface", FALSE, 0, "", FALSE, <<d>>) :
                       d \in UNION {BasicValues(T) :
                                      T \in {"bool", "int", "string", "pointer", "slice"}}}

        \* The values of type T; the struct type has an int and an interface field.
        GoValues(T) ==
            IF T = "interface" THEN InterfaceValues
            ELSE IF T = "struct"
              THEN {GoValue(T, FALSE, 0, "", FALSE, <<n, i>>) :
                       n \in BasicValues("int"), i \in InterfaceValues}
            ELSE BasicValues(T)
    IN
    {[T |-> T, nil |-> TRUE, elem |-> GoValue("invalid", FALSE, 0, "", FALSE, <<>>)] :
        T \in GoTypes}
      \cup UNION {{[T |-> T, nil |-> FALSE, elem |-> x] : x \in GoValues(T)} :
                    T \in GoTypes}

\* reflect.ValueOf(i any): the concrete value stored in the interface i, the
\* zero Value (kind Invalid) for a nil interface.
ValueOf(x) ==
    IF x.kind = "interface"
      THEN (IF x.nil THEN GoValue("invalid", FALSE, 0, "", FALSE, <<>>)
            ELSE x.fields[1])
      ELSE x

\* reflect.Value.IsZero: "panic" for the zero Value.
RECURSIVE ValueIsZero(_)
ValueIsZero(v) ==
    IF v.kind = "bool" THEN (IF ~v.bool THEN "true" ELSE "false")
    ELSE IF v.kind = "int" THEN (IF v.int = 0 THEN "true" ELSE "false")
    ELSE IF v.kind = "string" THEN (IF v.str = "" THEN "true" ELSE "false")
    ELSE IF v.kind \in {"pointer", "slice", "interface"}
      THEN (IF v.nil THEN "true" ELSE "false")
    ELSE IF v.kind = "struct"
      THEN (IF \A i \in DOMAIN v.fields : ValueIsZero(v.fields[i]) = "true"
              THEN "true" ELSE "false")
    ELSE "panic"

\* IsZero: "true", "false" or "panic".
IsZero(v) ==
    IF v.nil THEN "true" ELSE ValueIsZero(ValueOf(v.elem))

IsZeroCall ==
    /\ NotCalled
    /\ \E v \in Pointers : Returns("IsZero", v, IsZero(v))

\* --------------------------------------------- expand and flatten, in turn

\* An event_selector configuration expanded to the request's selectors and
\* flattened again.
flattenEventSelectorCall ==
    /\ NotCalled
    /\ \E c \in UNION {[1..n -> EventSelectorBlocks] : n \in 0..MaxEventSelectors} :
          Returns("flattenEventSelector", c,
                  flattenEventSelector(expandEventSelector(c)))

expandOpenzfsFileDiskIopsConfiguration_PositiveIops(configured) ==
    IF Len(configured) < 1
      THEN [nil |-> TRUE, Mode |-> <<>>, Iops |-> <<>>]
      ELSE [nil |-> FALSE,
            Mode |-> IF configured[1].mode # "" THEN <<configured[1].mode>> ELSE <<>>,
            Iops |-> IF configured[1].iops > 0 THEN <<configured[1].iops>> ELSE <<>>]

\* A *fsx.DiskIopsConfiguration: nil, or Mode and Iops, each unset (<<>>) or
\* set (<<value>>).  Mode is set for a string that is not empty, Iops for
\* every int.
expandOpenzfsFileDiskIopsConfiguration(configured) ==
    IF Len(configured) < 1
      THEN [nil |-> TRUE, Mode |-> <<>>, Iops |-> <<>>]
      ELSE [nil |-> FALSE,
            Mode |-> IF configured[1].mode # "" THEN <<configured[1].mode>> ELSE <<>>,
            Iops |-> <<configured[1].iops>>]

\* The map of the one element holds mode and iops only when they are set
\* (<<>>: no such key).
flattenOpenzfsFileDiskIopsConfiguration(rs) ==
    IF rs.nil
      THEN <<>>
      ELSE <<[mode |-> IF rs.Mode # <<>> THEN <<rs.Mode[1]>> ELSE <<>>,
              iops |-> IF rs.Iops # <<>> THEN <<rs.Iops[1]>> ELSE <<>>]>>

\* expand on a disk_iops_configuration list, with its result flattened
\* again; flatten on a configuration the service returned.
DiskIopsConfigurationCall ==
    /\ NotCalled
    /\ \/ \E configured \in {<<>>} \cup
                      {<<m>> : m \in [mode : {"", "AUTOMATIC", "USER_PROVISIONED"},
                                      iops : {-1, 0, 1, 3000, 160000}]} :
              Returns("expandOpenzfsFileDiskIopsConfiguration", configured,
                      [expanded |-> expandOpenzfsFileDiskIopsConfiguration(configured),
                       flattened |->
                          flattenOpenzfsFileDiskIopsConfiguration(
                              expandOpenzfsFileDiskIopsConfiguration(configured))])
       \/ \E rs \in {[nil |-> TRUE, Mode |-> <<>>, Iops |-> <<>>]} \cup
                     [nil : {FALSE}, Mode : {<<>>, <<"AUTOMATIC">>},
                      Iops : {<<>>, <<0>>, <<3000>>}] :
              Returns("flattenOpenzfsFileDiskIopsConfiguration", rs,
                      flattenOpenzfsFileDiskIopsConfiguration(rs))

\* ------------------------------------------------- the provider's requests

ResourceId(r) == IF r = "fsx" THEN FsId
                 ELSE IF r = "acl" THEN AclName ELSE TrailName

EntryPc(r, o) ==
    IF r = "fsx"
      THEN (IF o = "create" THEN "fsx_create" ELSE IF o = "read" THEN "fsx_read"
            ELSE IF o = "update" THEN "fsx_update" ELSE "fsx_delete")
    ELSE IF r = "acl"
      THEN (IF o = "create" THEN "acl_create" ELSE IF o = "read" THEN "acl_read"
            ELSE IF o = "update" THEN "acl_update" ELSE "acl_delete")
    ELSE (IF o = "create" THEN "ct_create" ELSE IF o = "read" THEN "ct_read"
          ELSE IF o = "update" THEN "ct_update" ELSE "ct_delete")

\* The plugin SDK calls handler `o` of resource `r`: Create runs on a new
\* resource without an ID, the others on an existing one.
Begin(r, o, c, ch) ==
    /\ pc = "idle"
    /\ res' = r
    /\ op' = o
    /\ pc' = EntryPc(r, o)
    /\ id' = IF o = "create" THEN "" ELSE ResourceId(r)
    /\ isNew' = (o = "create")
    /\ status' = "running"
    /\ calls' = <<>>
    /\ changed' = ch
    /\ cfg' = c
    /\ req' = EmptyReq
    /\ initialUserNames' = {}
    /\ elapsed' = 0
    /\ attrs' = {}
    /\ eventSelectorState' = <<>>
    /\ remote' = NoRemote
    /\ filesystem' = NoFileSystem
    /\ trailErr' = NoTrailError
    /\ UNCHANGED <<sweepVars, callVars>>

\* Tags unchanged, or changed (tags and with it tags_all).
TagChanges == {{}, {"tags", "tags_all"}}

OpenzfsKeys == {"storage_capacity", "root_volume_configuration"}

StartOpenzfs ==
    \/ \E b \in BOOLEAN :
         Begin("fsx", "create", [EmptyCfg EXCEPT !.backup_id = b], {})
    \/ \E ch \in SUBSET OpenzfsKeys, t \in TagChanges :
         Begin("fsx", "update", EmptyCfg, ch \cup t)
    \/ \E o \in {"read", "delete"} :
         Begin("fsx", o, EmptyCfg, {})

\* user_names has a change exactly when the old and the new set differ.
StartACL ==
    \/ Begin("acl", "create", EmptyCfg, {})
    \/ \E o \in SUBSET Users, n \in SUBSET Users, t \in TagChanges :
         Begin("acl", "update",
               [EmptyCfg EXCEPT !.old_user_names = o, !.new_user_names = n],
               (IF o # n THEN {"user_names"} ELSE {}) \cup t)
    \/ \E o \in {"read", "delete"} :
         Begin("acl", o, EmptyCfg, {})

LogsArns == [role : {"", "arn:role"}, group : {"", "arn:log-group"}]

TrailKeys == {"s3_bucket_name", "cloud_watch_logs_role_arn",
              "cloud_watch_logs_group_arn", "enable_logging", "event_selector",
              "advanced_event_selector", "insight_selector"}

\* event_selector and advanced_event_selector exclude each other in a
\* configuration (ConflictsWith).
StartTrail ==
    \/ \E a \in LogsArns, l \in BOOLEAN, es \in EventSelectorConfigs,
          adv \in BOOLEAN, ins \in BOOLEAN :
         /\ ~(es # <<>> /\ adv)
         /\ Begin("trail", "create",
                  [EmptyCfg EXCEPT !.cloud_watch_logs_role_arn = a.role,
                                   !.cloud_watch_logs_group_arn = a.group,
                                   !.enable_logging = l,
                                   !.event_selector = es,
                                   !.advanced_event_selector = adv,
                                   !.insight_selector = ins],
                  {})
    \/ \E a \in LogsArns, l \in BOOLEAN, es \in EventSelectorConfigs,
          ch \in SUBSET TrailKeys, t \in TagChanges :
         /\ Cardinality(ch) <= MaxChanged
         \* Update reads an attribute only when it has a change: the
         \* attributes without one are held at their zero value.
         /\ (ch \cap {"cloud_watch_logs_role_arn",
                      "cloud_watch_logs_group_arn"} = {})
               => (a.role = "" /\ a.group = "")
         /\ "enable_logging" \notin ch => ~l
         /\ "event_selector" \notin ch => es = <<>>
         /\ Begin("trail", "update",
                  [EmptyCfg EXCEPT !.cloud_watch_logs_role_arn = a.role,
                                   !.cloud_watch_logs_group_arn = a.group,
                                   !.enable_logging = l,
                                   !.event_selector = es],
                  ch \cup t)
    \/ \E o \in {"read", "delete"} :
         Begin("trail", o, EmptyCfg, {})

Start ==
    /\ pc = "idle"
    /\ (StartOpenzfs \/ StartACL \/ StartTrail)

Step == OpenzfsStep \/ ACLStep \/ CloudTrailStep

Init ==
    /\ res = "fsx"
    /\ op = "read"
    /\ pc = "idle"
    /\ id = ""
    /\ isNew = FALSE
    /\ status = "ok"
    /\ calls = <<>>
    /\ changed = {}
    /\ cfg = EmptyCfg
    /\ req = EmptyReq
    /\ initialUserNames = {}
    /\ elapsed = 0
    /\ attrs = {}
    /\ eventSelectorState = <<>>
    /\ remote = NoRemote
    /\ filesystem = NoFileSystem
    /\ trailErr = NoTrailError
    /\ sweeperClients = <<>>
    /\ nextClient = 1
    /\ env = {}
    /\ sweepRegion = "us-west-2"
    /\ sweepCalled = FALSE
    /\ sweepClient = 0
    /\ sweepErr = FALSE
    /\ sweepSteps = <<>>
    /\ callee = ""
    /\ argument = <<>>
    /\ returned = FALSE

Next == Start \/ Step

Spec == Init /\ [][Next]_vars


SweepNext == SharedRegionalSweepClient

SweepSpec == Init /\ [][SweepNext]_vars


CallNext ==
    \/ SkipSweepErrorCall
    \/ CustomizeDiffCall
    \/ validateThroughputCapacityCall
    \/ validateDiskConfigurationIOPSCall
    \/ testAccCheckSecurityGroupRuleAttributesCall
    \/ TestIPPermissionIDHash
    \/ IPPermissionIDHashCall
    \/ IsZeroCall
    \/ flattenEventSelectorCall
    \/ DiskIopsConfigurationCall

CallSpec == Init /\ [][CallNext]_vars

\* The handlers run to completion: a call to the service returns.
FairSpec == Spec /\ WF_vars(Step)

\* ------------------------------------------------------------------ claims

Last(log) == log[Len(log)]

(* C1: In resourceACLUpdate every user name in UserNamesToRemove is in
   (old user_names minus new user_names) and among the users FindACLByName
   returned during this update. *)
C1_RemovedUsersWereStillPresent ==
    (res = "acl" /\ op = "update") =>
        /\ req.UserNamesToRemove \subseteq
              (cfg.old_user_names \ cfg.new_user_names) \cap initialUserNames
        /\ \A u \in Users : u \notin initialUserNames
                              => u \notin req.UserNamesToRemove

C1_Witness ==
    /\ res = "acl" /\ op = "update"
    /\ "UpdateACL" \in Apis(calls)
    /\ req.UserNamesToRemove # {}
    /\ (cfg.old_user_names \ cfg.new_user_names) \ initialUserNames # {}

(* C2: In the Read handlers of the FSx OpenZFS file system and the MemoryDB
   ACL, a NotFound from the finder on a resource that is not new clears the
   ID and returns no error; on a new resource it returns an error and keeps
   the ID. *)
C2_ReadNotFound ==
    [][(pc \in {"fsx_read", "acl_read"} /\ pc' # pc
          /\ Last(calls').r = "notfound")
        => IF isNew THEN status' = "error" /\ id' = id
                    ELSE status' = "ok" /\ id' = ""]_vars

C2_Witness ==
    /\ res = "fsx" /\ op = "create" /\ isNew
    /\ pc = "done" /\ status = "error"
    /\ Last(calls) = [api |-> "FindFileSystemByID", r |-> "notfound"]
    /\ id = FsId

(* C3: When the delete call of the FSx OpenZFS file system, the MemoryDB ACL
   or the CloudTrail trail reports that the resource does not exist, Delete
   returns success and runs no deletion waiter; any other error of the call
   is returned as an error. *)
C3_DeleteOfDeletedSucceeds ==
    (pc # "idle" /\ op = "delete" /\ Len(calls) >= 1) =>
        /\ calls[1].api \in {"DeleteFileSystem", "DeleteACL", "DeleteTrail"}
        /\ calls[1].r = "notfound"
             => status = "ok" /\ pc = "done" /\ Len(calls) = 1
        /\ calls[1].r = "err"
             => status = "error" /\ pc = "done" /\ Len(calls) = 1

C3_Witness ==
    /\ res = "trail" /\ op = "delete" /\ pc = "done"
    /\ calls = <<[api |-> "DeleteTrail", r |-> "notfound"]>>
    /\ status = "ok"

MutatingCalls == {"CreateFileSystem", "CreateFileSystemFromBackup",
                  "UpdateFileSystem", "UpdateVolume", "DeleteFileSystem",
                  "CreateACL", "UpdateACL", "DeleteACL"}

WaiterOf(api) ==
    CASE api \in {"CreateFileSystem", "CreateFileSystemFromBackup"}
           -> "waitFileSystemCreated"
      [] api = "UpdateFileSystem" -> "waitFileSystemUpdated"
      [] api = "UpdateVolume" -> "waitVolumeUpdated"
      [] api = "DeleteFileSystem" -> "waitFileSystemDeleted"
      [] api \in {"CreateACL", "UpdateACL"} -> "waitACLActive"
      [] api = "DeleteACL" -> "waitACLDeleted"

Waiters == {"waitFileSystemCreated", "waitFileSystemUpdated",
            "waitAdministrativeActionCompleted", "waitVolumeUpdated",
            "waitFileSystemDeleted", "waitACLActive", "waitACLDeleted"}

(* C4: In the FSx OpenZFS and MemoryDB ACL handlers every successful
   mutating call is followed at once by its waiter, before any read-back and
   before the handler returns; a waiter's error ends the handler with an
   error and without the final Read. *)
C4_WaiterFollowsMutation ==
    (res \in {"fsx", "acl"}) =>
        \A i \in DOMAIN calls :
            /\ (calls[i].api \in MutatingCalls /\ calls[i].r = "ok")
                 => IF i = Len(calls)
                      THEN status = "running"
                      ELSE calls[i + 1].api = WaiterOf(calls[i].api)
            /\ (calls[i].api \in Waiters /\ calls[i].r = "err")
                 => i = Len(calls) /\ status = "error" /\ pc = "done"

C4_Witness ==
    /\ res = "acl" /\ op = "create"
    /\ calls = <<[api |-> "CreateACL", r |-> "ok"],
                 [api |-> "waitACLActive", r |-> "err"]>>
    /\ status = "error"

RetriedCalls == {"CreateTrail", "UpdateTrail"}

RetryPcs == {"ct_create", "ct_create_timedout", "ct_update",
             "ct_update_timedout"}

InRetry == pc \in RetryPcs

Attempts(log) == {i \in DOMAIN log : log[i].api \in RetriedCalls}

Timeouts(log) == {i \in DOMAIN log : log[i].api = "RetryContext"}

\* The attempts of a retried call as the log shows them: one that succeeds
\* or fails for good before the timeout is the last one; a retryable error
\* is followed by the next attempt or by the timeout; after the timeout
\* comes one attempt, whose error ends the handler.
RetryShape ==
    /\ Cardinality(Timeouts(calls)) <= 1
    /\ \A i \in Attempts(calls) :
         (\A t \in Timeouts(calls) : i < t) =>
            /\ calls[i].r \in {"ok", "err"}
                 => \A j \in Attempts(calls) : j <= i
            /\ calls[i].r = "err"
                 => i = Len(calls) /\ status = "error" /\ pc = "done"
            /\ calls[i].r = "retryable"
                 => IF i = Len(calls)
                      THEN InRetry /\ status = "running"
                      ELSE calls[i + 1].api \in RetriedCalls \cup {"RetryContext"}
    /\ \A t \in Timeouts(calls) :
         LET after == {i \in Attempts(calls) : i > t} IN
         /\ Cardinality(after) <= 1
         /\ ~InRetry => Cardinality(after) = 1
         /\ InRetry => after = {} /\ t = Len(calls)
         /\ \A i \in after :
              /\ i = t + 1
              /\ calls[i].r # "ok"
                   => i = Len(calls) /\ status = "error" /\ pc = "done"

(* C5: The retry of CreateTrail (and UpdateTrail) always terminates: it ends
   at the first successful call, at the first non-retryable error, or when
   propagationTimeout has elapsed; after a timeout exactly one more attempt
   is made and its outcome is final. *)
C5_RetryTerminates == []RetryShape /\ (InRetry ~> ~InRetry)

C5_Witness ==
    /\ res = "trail" /\ op = "create" /\ ~InRetry
    /\ Len(calls) >= 3
    /\ calls[Len(calls) - 1] = [api |-> "RetryContext", r |-> "timeout"]
    /\ Last(calls) = [api |-> "CreateTrail", r |-> "retryable"]
    /\ status = "error"

(* C6: resourceCloudTrailRead detects absence from the returned list: when
   DescribeTrails succeeds and returns no trail named like the resource ID,
   a resource that is not new loses its ID without an error and a new one
   gets an error and keeps its ID; when DescribeTrails fails, an error is
   returned and the ID is unchanged. *)
C6_TrailAbsentFromList ==
    [][(pc = "ct_read" /\ pc' # pc) =>
         LET r == Last(calls').r
             absent == \A name \in remote'.TrailList : name # id
         IN /\ r = "err" => status' = "error" /\ id' = id
            /\ (r = "ok" /\ absent /\ ~isNew) => status' = "ok" /\ id' = ""
            /\ (r = "ok" /\ absent /\ isNew) => status' = "error" /\ id' = id
            /\ (r = "ok" /\ ~absent) => status' = "running" /\ id' = id]_vars

C6_Witness ==
    /\ res = "trail" /\ op = "create" /\ isNew
    /\ Len(calls) >= 1
    /\ Last(calls) = [api |-> "DescribeTrails", r |-> "ok"]
    /\ remote.TrailList = {"trail-2"}
    /\ status = "error" /\ pc = "done"
    /\ id = TrailName

(* C7: With no event_selector configured, setEventSelectors sends exactly
   one selector (management events included, read/write type All, no data
   resources), never an empty list, and flattenEventSelector maps that
   selector back to the empty list, so Read writes the configured value. *)
C7_EmptyEventSelectorRoundTrips ==
    [][(pc = "ct_event_selector" /\ pc' # pc) =>
         /\ Len(req'.EventSelectors) >= 1
         /\ cfg.event_selector = <<>> =>
              /\ Len(req'.EventSelectors) = 1
              /\ req'.EventSelectors[1].IncludeManagementEvents = TRUE
              /\ req'.EventSelectors[1].ReadWriteType = "All"
              /\ req'.EventSelectors[1].DataResources = <<>>
              /\ flattenEventSelector(req'.EventSelectors) = cfg.event_selector]_vars
    /\ [](("event_selector" \in attrs /\ remote.Put /\ cfg.event_selector = <<>>)
            => eventSelectorState = <<>>)

C7_Witness ==
    /\ res = "trail" /\ op = "update"
    /\ "event_selector" \in changed /\ cfg.event_selector = <<>>
    /\ remote.Put /\ Len(remote.EventSelectors) = 1
    /\ "event_selector" \in attrs /\ eventSelectorState = <<>>
    /\ status = "ok"

(* C8: resourceCloudTrailCreate calls StartLogging exactly when
   enable_logging is true, only after CreateTrail succeeded and the ID was
   set, and never calls StopLogging. *)
C8_CreateStartsLogging ==
    (res = "trail" /\ op = "create") =>
        /\ "StopLogging" \notin Apis(calls)
        /\ Cardinality({i \in DOMAIN calls : calls[i].api = "StartLogging"}) <= 1
        /\ \A i \in DOMAIN calls : calls[i].api = "StartLogging" =>
              /\ cfg.enable_logging
              /\ id = TrailName
              /\ \E j \in 1..(i - 1) :
                    calls[j] = [api |-> "CreateTrail", r |-> "ok"]
        /\ ([api |-> "CreateTrail", r |-> "ok"] \in
                {calls[i] : i \in DOMAIN calls}
              /\ cfg.enable_logging /\ pc # "ct_logging")
             => "StartLogging" \in Apis(calls)

C8_Witness ==
    /\ res = "trail" /\ op = "create" /\ cfg.enable_logging
    /\ [api |-> "StartLogging", r |-> "ok"] \in {calls[i] : i \in DOMAIN calls}
    /\ status = "ok"

(* C9: In every UpdateTrail request of resourceCloudTrailUpdate,
   CloudWatchLogsRoleArn is set exactly when CloudWatchLogsLogGroupArn is,
   and both are set whenever cloud_watch_logs_role_arn or
   cloud_watch_logs_group_arn has a change. *)
C9_LogsArnsSetTogether ==
    (res = "trail" /\ op = "update" /\ "UpdateTrail" \in Apis(calls)) =>
        /\ (req.CloudWatchLogsRoleArn # NIL)
              <=> (req.CloudWatchLogsLogGroupArn # NIL)
        /\ ("cloud_watch_logs_role_arn" \in changed
              \/ "cloud_watch_logs_group_arn" \in changed)
             => /\ req.CloudWatchLogsRoleArn = cfg.cloud_watch_logs_role_arn
                /\ req.CloudWatchLogsLogGroupArn = cfg.cloud_watch_logs_group_arn

C9_Witness ==
    /\ res = "trail" /\ op = "update" /\ "UpdateTrail" \in Apis(calls)
    /\ "cloud_watch_logs_role_arn" \in changed
    /\ "cloud_watch_logs_group_arn" \notin changed
    /\ req.CloudWatchLogsLogGroupArn # NIL
    /\ req.CloudWatchLogsRoleArn # NIL

(* C10: SharedRegionalSweepClient caches one client per region: a call for a
   region whose client is cached returns that client and runs neither the
   environment checks nor ConfigureProvider and leaves the cache alone; a
   successful call leaves its client cached for its region and changes no
   other region's entry; a failing call stores nothing. *)
C10_OneClientPerRegion ==
    [][sweepCalled' =>
         LET R == sweepRegion' IN
         /\ R \in DOMAIN sweeperClients =>
              /\ ~sweepErr'
              /\ sweepClient' = sweeperClients[R]
              /\ sweepSteps' = <<>>
              /\ sweeperClients' = sweeperClients
         /\ sweepErr' => sweeperClients' = sweeperClients
         /\ ~sweepErr' =>
              /\ R \in DOMAIN sweeperClients'
              /\ sweeperClients'[R] = sweepClient'
              /\ \A Q \in DOMAIN sweeperClients :
                    Q \in DOMAIN sweeperClients'
                    /\ sweeperClients'[Q] = sweeperClients[Q]]_vars

C10_Witness ==
    /\ sweepCalled /\ ~sweepErr
    /\ sweepSteps = <<>>
    /\ env = {}
    /\ sweepRegion \in DOMAIN sweeperClients
    /\ sweepClient = sweeperClients[sweepRegion]
    /\ DOMAIN sweeperClients = Regions

\* The code/message patterns for which a sweeper's error is skipped; an
\* empty text stands for any message.
SkippedPatterns ==
    {<<"RequestError", "send request failed">>,
     <<"UnsupportedOperation", "">>,
     <<"InvalidParameterValue", "not permitted in this API version for your account">>,
     <<"InvalidParameterValue", "Access Denied to API Version">>,
     <<"AccessDeniedException", "">>,
     <<"BadRequestException", "not supported">>,
     <<"InvalidAction", "is not supported in this region">>,
     <<"InvalidAction", "is not valid">>,
     <<"InvalidAction", "Unavailable Operation">>,
     <<"InvalidKeySigningKeyStatus", "cannot be deleted because">>,
     <<"KeySigningKeyInParentDSRecord", "Due to DNS lookup failure">>,
     <<"UnknownOperationException", "Operation is disabled in this region">>,
     <<"UnknownOperationException",
       "The requested operation is not supported in the called region">>,
     <<"UnsupportedCommandException", "command is only supported in">>,
     <<"ValidationException", "Account is not whitelisted to use this feature">>}

MatchesSkippedPattern(err) ==
    /\ err.aws
    /\ \E p \in SkippedPatterns :
         /\ err.code = p[1]
         /\ p[2] = "" \/ \E i \in DOMAIN err.message :
                            TextContains(err.message[i], p[2])

(* C11: SkipSweepError(err) returns true if and only if err matches one of
   the listed code/message patterns (AccessDeniedException and
   UnsupportedOperation with any message) or, matching none, wraps a
   net.DNSError whose IsNotFound is true; for every other error, nil
   included, it returns false. *)
C11_SkipSweepError ==
    callee = "SkipSweepError" =>
        IF argument.nil
          THEN returned = FALSE
          ELSE returned = (\/ MatchesSkippedPattern(argument)
                           \/ /\ ~MatchesSkippedPattern(argument)
                              /\ argument.dns /\ argument.IsNotFound)

C11_Witness ==
    /\ callee = "SkipSweepError"
    /\ ~argument.nil
    /\ argument.aws /\ argument.code = "InvalidAction"
    /\ argument.message = <<"rate exceeded">>
    /\ argument.dns /\ ~argument.IsNotFound
    /\ returned = FALSE

\* The plans the claimed throughput rule rejects.
ThroughputCapacityInvalid(d) ==
    \/ /\ d.deployment_type = "SINGLE_AZ_1"
       /\ d.throughput_capacity \notin {64, 128, 256, 512, 1024, 2048, 3072, 4096}
    \/ /\ d.deployment_type = "SINGLE_AZ_2"
       /\ d.throughput_capacity \notin
              {160, 320, 640, 1280, 2560, 3840, 5120, 7680, 10240}

\* The plans the claimed iops rule rejects.
IopsOutOfRange(d) ==
    /\ Len(d.disk_iops_configuration) > 0
    /\ \/ /\ d.deployment_type = "SINGLE_AZ_1"
          /\ d.disk_iops_configuration[1].iops \notin 0..160000
       \/ /\ d.deployment_type = "SINGLE_AZ_2"
          /\ d.disk_iops_configuration[1].iops \notin 0..350000

(* C12 as stated: the FSx OpenZFS CustomizeDiff rejects a plan exactly when
   deployment_type is SINGLE_AZ_1 or SINGLE_AZ_2 and throughput_capacity is
   not among that type's values. *)
C12_Original_RejectsExactlyOnThroughput ==
    callee = "CustomizeDiff" => (returned <=> ThroughputCapacityInvalid(argument))

(* C12: The throughput check of the FSx OpenZFS CustomizeDiff returns an
   error exactly when deployment_type is SINGLE_AZ_1 and throughput_capacity
   is not in {64,...,4096}, or deployment_type is SINGLE_AZ_2 and
   throughput_capacity is not in {160,...,10240}; CustomizeDiff as a whole
   rejects a plan exactly when that check or the iops check fails, and for
   any other deployment type every throughput_capacity passes. *)
C12_ThroughputCapacityCheck ==
    /\ callee = "validateThroughputCapacity"
         => (returned <=> ThroughputCapacityInvalid(argument))
    /\ callee = "CustomizeDiff"
         => /\ returned <=> (\/ ThroughputCapacityInvalid(argument)
                             \/ IopsOutOfRange(argument))
            /\ argument.deployment_type \notin {"SINGLE_AZ_1", "SINGLE_AZ_2"}
                 => ~returned

C12_Witness ==
    /\ callee = "CustomizeDiff"
    /\ argument.deployment_type = "SINGLE_AZ_2"
    /\ argument.throughput_capacity = 160
    /\ Len(argument.disk_iops_configuration) = 1
    /\ argument.disk_iops_configuration[1].iops = 350001
    /\ returned

(* C13: validateDiskConfigurationIOPS returns an error exactly when
   disk_iops_configuration is present and non-empty and its iops is outside
   0..160000 with deployment_type SINGLE_AZ_1 or outside 0..350000 with
   SINGLE_AZ_2; with any other deployment type, or without
   disk_iops_configuration, it returns no error. *)
C13_DiskConfigurationIOPS ==
    callee = "validateDiskConfigurationIOPS" =>
        /\ returned <=> IopsOutOfRange(argument)
        /\ (\/ argument.deployment_type \notin {"SINGLE_AZ_1", "SINGLE_AZ_2"}
            \/ argument.disk_iops_configuration = <<>>) => ~returned

C13_Witness ==
    /\ callee = "validateDiskConfigurationIOPS"
    /\ argument.deployment_type = "SINGLE_AZ_2"
    /\ Len(argument.disk_iops_configuration) = 1
    /\ argument.disk_iops_configuration[1].iops = 160001
    /\ ~returned

(* C14: resourceOpenzfsFileSystemRead refuses a file system of another
   type: when the file system found has a Windows, Lustre or ONTAP
   configuration, or no OpenZFS configuration, Read returns an error, sets
   no attribute and leaves the resource ID unchanged. *)
C14_ReadRefusesOtherType ==
    [][(/\ pc = "fsx_read" /\ pc' # pc
        /\ Last(calls') = [api |-> "FindFileSystemByID", r |-> "ok"]
        /\ \/ filesystem'.WindowsConfiguration
           \/ filesystem'.LustreConfiguration
           \/ filesystem'.OntapConfiguration
           \/ ~filesystem'.OpenZFSConfiguration)
       => /\ status' = "error"
          /\ pc' = "done"
          /\ attrs' = attrs
          /\ id' = id]_vars

C14_Witness ==
    /\ res = "fsx" /\ op = "read" /\ pc = "done"
    /\ calls = <<[api |-> "FindFileSystemByID", r |-> "ok"]>>
    /\ filesystem.OntapConfiguration /\ filesystem.OpenZFSConfiguration
    /\ ~filesystem.WindowsConfiguration /\ ~filesystem.LustreConfiguration
    /\ status = "error"
    /\ attrs = {}
    /\ id = FsId

\* The rule agrees with the expected permission on a port wherever both
\* set it.
AgreesWhereBothSet(a, b) == a = <<>> \/ b = <<>> \/ a = b

\* Every entry of the expected list is in the rule's list.
ContainsEvery(expected, actual) ==
    \A i \in DOMAIN expected :
        \E j \in DOMAIN actual : actual[j] = expected[i]

(* C15: testAccCheckSecurityGroupRuleAttributes succeeds only if some rule of
   the chosen direction (IpPermissions for ingress, IpPermissionsEgress
   otherwise) agrees with the expected permission on from-port, to-port and
   protocol wherever both set them and contains every CIDR, IPv6 CIDR,
   group ID and prefix list ID expected; with an empty rule list of that
   direction it fails. *)
C15_PartialMatch ==
    callee = "testAccCheckSecurityGroupRuleAttributes" =>
        LET a == argument
            p == IF a.nil
                   THEN [FromPort |-> <<80>>, ToPort |-> <<8000>>,
                         IpProtocol |-> "tcp", IpRanges |-> <<"10.0.0.0/8">>,
                         Ipv6Ranges |-> <<>>, UserIdGroupPairs |-> <<>>,
                         PrefixListIds |-> <<>>]
                   ELSE a.p
            rules == IF a.ruleType = "ingress" THEN a.group.IpPermissions
                     ELSE a.group.IpPermissionsEgress
        IN /\ returned = "ok" =>
                \E i \in DOMAIN rules :
                    /\ AgreesWhereBothSet(p.FromPort, rules[i].FromPort)
                    /\ AgreesWhereBothSet(p.ToPort, rules[i].ToPort)
                    /\ \/ p.IpProtocol = NIL \/ rules[i].IpProtocol = NIL
                       \/ p.IpProtocol = rules[i].IpProtocol
                    /\ ContainsEvery(p.IpRanges, rules[i].IpRanges)
                    /\ ContainsEvery(p.Ipv6Ranges, rules[i].Ipv6Ranges)
                    /\ ContainsEvery(p.UserIdGroupPairs, rules[i].UserIdGroupPairs)
                    /\ ContainsEvery(p.PrefixListIds, rules[i].PrefixListIds)
           /\ rules = <<>> => returned # "ok"

C15_Witness ==
    /\ callee = "testAccCheckSecurityGroupRuleAttributes"
    /\ ~argument.nil /\ argument.ruleType = "ingress"
    /\ argument.p.IpProtocol = NIL
    /\ argument.p.IpRanges = <<"10.0.0.0/8">>
    /\ argument.p.PrefixListIds = <<"pl-1">>
    /\ Len(argument.group.IpPermissions) = 2
    /\ argument.group.IpPermissions[1].PrefixListIds = <<>>
    /\ argument.group.IpPermissions[2].FromPort = <<>>
    /\ Len(argument.group.IpPermissions[2].IpRanges) = 2
    /\ returned = "ok"

\* "sgrule-" followed by a decimal number.
IsRuleID(str) ==
    /\ Len(str) > 7
    /\ SubSeq(str, 1, 7) = <<"s", "g", "r", "u", "l", "e", "-">>
    /\ \A i \in 8..Len(str) :
          str[i] \in {"0", "1", "2", "3", "4", "5", "6", "7", "8", "9"}
    /\ str[8] = "0" => Len(str) = 8

(* C17: The hash-based rule identity depends on the rule type: for the same
   security group ID and an identical IpPermission, IPPermissionIDHash
   returns different IDs for ingress and egress, each of the form
   sgrule-<decimal number>; the test's hardcoded IDs are the ones returned. *)
C17_RuleIDDependsOnType ==
    /\ callee = "IPPermissionIDHash" =>
          /\ returned.ingress # returned.egress
          /\ IsRuleID(returned.ingress)
          /\ IsRuleID(returned.egress)
    /\ callee = "TestIPPermissionIDHash" => returned = {}

C17_Witness ==
    /\ callee = "IPPermissionIDHash"
    /\ argument.sg_id = <<"s", "g", "-", "1", "2", "3", "4", "5">>
    /\ argument.ip.FromPort = <<80>> /\ argument.ip.ToPort = <<8000>>
    /\ argument.ip.IpProtocol = <<"t", "c", "p">>
    /\ argument.ip.IpRanges = <<<<"1", "0", ".", "0", ".", "0", ".", "0", "/", "8">>>>
    /\ argument.ip.UserIdGroupPairs = <<>>
    /\ returned.ingress = <<"s", "g", "r", "u", "l", "e", "-", "3", "4", "0", "3", "4", "9", "7", "3", "1", "4">>
    /\ returned.egress = <<"s", "g", "r", "u", "l", "e", "-", "1", "1", "7", "3", "1", "8", "6", "2", "9", "5">>

\* The zero value of type T.
ZeroValue(T) ==
    IF T = "interface" THEN GoValue(T, FALSE, 0, "", TRUE, <<>>)
    ELSE IF T \in {"pointer", "slice"} THEN GoValue(T, FALSE, 0, "", TRUE, <<>>)
    ELSE IF T = "struct"
      THEN GoValue(T, FALSE, 0, "", FALSE,
                   <<GoValue("int", FALSE, 0, "", FALSE, <<>>),
                     GoValue("interface", FALSE, 0, "", TRUE, <<>>)>>)
    ELSE GoValue(T, FALSE, 0, "", FALSE, <<>>)

(* C18: IsZero(v) returns true if and only if v is nil or the value v points
   to is the zero value of its type. *)
C18_IsZero ==
    callee = "IsZero" =>
        ((returned = "true")
            <=> (argument.nil \/ argument.elem = ZeroValue(argument.T)))

(* C18: IsZero does not return for a pointer to the nil value of an
   interface type. *)
C18_PanicsOnNilInterface ==
    /\ callee = "IsZero"
    /\ argument.T = "interface"
    /\ ~argument.nil
    /\ argument.elem.nil
    /\ returned = "panic"

(* C19: In resourceOpenzfsFileSystemUpdate, UpdateVolume is issued only after
   UpdateFileSystem succeeded and waitFileSystemUpdated and
   waitAdministrativeActionCompleted returned without error; when one of the
   three fails, the handler has returned an error, with no UpdateVolume and
   no Read. *)
C19_UpdateVolumeAfterFileSystemUpdate ==
    (res = "fsx" /\ op = "update") =>
        \A i \in DOMAIN calls :
            /\ calls[i].api = "UpdateVolume" =>
                  /\ i = 4
                  /\ SubSeq(calls, 1, 3) =
                        <<[api |-> "UpdateFileSystem", r |-> "ok"],
                          [api |-> "waitFileSystemUpdated", r |-> "ok"],
                          [api |-> "waitAdministrativeActionCompleted",
                           r |-> "ok"]>>
            /\ (/\ calls[i].api \in {"UpdateFileSystem", "waitFileSystemUpdated",
                                      "waitAdministrativeActionCompleted"}
                /\ calls[i].r = "err")
                  => /\ i = Len(calls)
                     /\ status = "error" /\ pc = "done"
                     /\ Apis(calls) \cap {"UpdateVolume", "FindFileSystemByID"} = {}

C19_Witness ==
    /\ res = "fsx" /\ op = "update"
    /\ Len(calls) >= 6
    /\ calls[4] = [api |-> "UpdateVolume", r |-> "ok"]
    /\ calls[6].api = "FindFileSystemByID"
    /\ pc = "done"

\* Only tags, and with them tags_all, have a change.
TagsOnly == op = "update" /\ changed # {} /\ changed \subseteq {"tags", "tags_all"}

\* The calls of each resource's Read.
ReadCalls ==
    IF res = "fsx" THEN {"FindFileSystemByID", "FindVolumeByID"}
    ELSE IF res = "acl" THEN {"FindACLByName"}
    ELSE {"DescribeTrails", "GetTrailStatus", "GetEventSelectors",
          "GetInsightSelectors"}

(* C20: An update in which only tags or tags_all changed makes no mutating
   service call: the FSx OpenZFS Update issues neither UpdateFileSystem nor
   UpdateVolume, the MemoryDB ACL Update neither its FindACLByName nor
   UpdateACL, the CloudTrail Update none of UpdateTrail, StartLogging,
   StopLogging, PutEventSelectors, PutInsightSelectors; the calls of each
   handler are those of its Read, for the ACL the one FindACLByName after
   which Read returns. *)
C20_TagsOnlyUpdateOnlyReads ==
    TagsOnly =>
        /\ Apis(calls) \subseteq ReadCalls
        /\ Apis(calls) \cap {"UpdateFileSystem", "UpdateVolume", "UpdateACL",
                             "UpdateTrail", "StartLogging", "StopLogging",
                             "PutEventSelectors", "PutInsightSelectors"} = {}
        /\ res = "acl" => (Len(calls) <= 1 /\ (calls # <<>> => pc = "done"))

C20_Witness ==
    /\ TagsOnly
    /\ res = "acl"
    /\ calls = <<[api |-> "FindACLByName", r |-> "ok"]>>
    /\ pc = "done" /\ status = "ok"

\* One selector with read/write type All, no data resource and no excluded
\* source.
SingleAllSelector(c) ==
    /\ Len(c) = 1
    /\ c[1].read_write_type = "All"
    /\ c[1].data_resource = <<>>
    /\ c[1].exclude_management_event_sources = {}

(* C21, as stated: for every event_selector configuration c with at least
   one element, flattenEventSelector(expandEventSelector(c)) equals c. *)
C21_Original_RoundTripsEveryConfiguration ==
    (callee = "flattenEventSelector" /\ Len(argument) >= 1)
        => returned = argument

(* C21: for every event_selector configuration c with at least one element,
   flattenEventSelector(expandEventSelector(c)) equals c, unless c is a
   single selector with read_write_type All, no data_resource and no
   exclude_management_event_sources: that one flattens to the empty list,
   whatever its include_management_events. *)
C21_RoundTripsButSingleAllSelector ==
    (callee = "flattenEventSelector" /\ Len(argument) >= 1)
        => returned = IF SingleAllSelector(argument) THEN <<>> ELSE argument

C21_Witness ==
    /\ callee = "flattenEventSelector"
    /\ Len(argument) = 2
    /\ SingleAllSelector(<<argument[1]>>)
    /\ ~argument[1].include_management_events
    /\ argument[2].data_resource # <<>>
    /\ argument[2].exclude_management_event_sources # {}
    /\ returned = argument

\* An error with one of the two CloudWatch Logs ARN codes whose message
\* contains "Access denied.".
AccessDeniedToLogs(e) ==
    /\ e.code \in {"InvalidCloudWatchLogsRoleArnException",
                   "InvalidCloudWatchLogsLogGroupArnException"}
    /\ e.message \in {"Access denied.", "Access denied. Check the trust policy."}

(* C22: In resourceCloudTrailCreate, CreateTrail is attempted again only after
   an error with code InvalidCloudWatchLogsRoleArnException or
   InvalidCloudWatchLogsLogGroupArnException whose message contains
   "Access denied."; any other CreateTrail error ends the creation at once
   with an error, with the resource ID unset and no logging or selector call
   made. *)
C22_CreateRetriesAccessDeniedOnly ==
    /\ [][(/\ res = "trail" /\ op = "create"
           /\ Attempts(calls) # {}
           /\ Cardinality(Attempts(calls')) > Cardinality(Attempts(calls)))
            => AccessDeniedToLogs(trailErr)]_vars
    /\ []((/\ res = "trail" /\ op = "create"
           /\ trailErr # NoTrailError
           /\ ~AccessDeniedToLogs(trailErr))
            => /\ pc = "done" /\ status = "error"
               /\ id = ""
               /\ Last(calls) = [api |-> "CreateTrail", r |-> "err"]
               /\ Apis(calls) \subseteq {"CreateTrail", "RetryContext"})

C22_Witness ==
    /\ res = "trail" /\ op = "create"
    /\ cfg.enable_logging /\ cfg.event_selector # <<>>
    /\ Len(calls) = 2
    /\ calls[1] = [api |-> "CreateTrail", r |-> "retryable"]
    /\ calls[2] = [api |-> "CreateTrail", r |-> "err"]
    /\ trailErr = [code |-> "InvalidCloudWatchLogsRoleArnException",
                   message |-> "Bucket does not exist."]
    /\ pc = "done" /\ status = "error" /\ id = ""

(* C23: expandOpenzfsFileDiskIopsConfiguration maps an empty list to nil,
   flattenOpenzfsFileDiskIopsConfiguration maps nil to an empty list, and for
   a one-element configuration with a non-empty mode and an integer iops,
   flatten(expand(cfg)) is one element with the same mode and the same
   iops. *)
C23_DiskIopsConfigurationRoundTrips ==
    /\ callee = "expandOpenzfsFileDiskIopsConfiguration" =>
          /\ argument = <<>> => returned.expanded.nil
          /\ (Len(argument) = 1 /\ argument[1].mode # "") =>
                returned.flattened = <<[mode |-> <<argument[1].mode>>,
                                        iops |-> <<argument[1].iops>>]>>
    /\ (callee = "flattenOpenzfsFileDiskIopsConfiguration" /\ argument.nil)
          => returned = <<>>

C23_Witness ==
    /\ callee = "expandOpenzfsFileDiskIopsConfiguration"
    /\ argument = <<[mode |-> "USER_PROVISIONED", iops |-> 0]>>
    /\ ~returned.expanded.nil
    /\ Len(returned.flattened) = 1
    /\ returned.flattened[1].iops = <<0>>

============================================================================
